---- MODULE Spec2Model ----
(***************************************************************************)
(* Routing engine of the converter: the driving loop                       *)
(* tryConvertByTraversing and the path executor attemptConvertPath of      *)
(* src/src/main.ts, over handlers that follow the FormatHandler contract.  *)
(*                                                                         *)
(* An optional JavaScript value is a sequence of length at most one:       *)
(* <<>> is undefined / null, <<v>> is the value v.  A Map is a function    *)
(* whose DOMAIN is the set of its keys.                                    *)
(***************************************************************************)
EXTENDS Integers, Sequences, FiniteSets, TLC

None == <<>>
Some(v) == <<v>>

\* Largest number of candidate paths the path search yields in one run.
MaxCands == 2

(***************************************************************************)
(* The catalog the runs are checked on.                                    *)
(***************************************************************************)
Handlers == {"H1", "H2", "H3", "H4"}

Fmt(m, f, n, fr, t) ==
    [mime |-> m, format |-> f, internal |-> n, from |-> fr, to |-> t]

FmtA  == Fmt("m/a", "a", "a", TRUE, FALSE)
FmtB  == Fmt("m/b", "b", "b", FALSE, TRUE)
FmtBin == Fmt("m/b", "b", "b", TRUE, FALSE)
FmtB0 == Fmt("m/b", "b0", "b0", TRUE, FALSE)
FmtC  == Fmt("m/c", "c", "c", FALSE, TRUE)
FmtC2 == Fmt("m/c", "c", "c2", FALSE, TRUE)

\* What each handler declares (its supportedFormats once initialised).
\* H1: a -> b.  H2: b -> c, with two input descriptors of the same media
\* type.  H3: accepts any input, produces c, declares no input descriptor.
\* H4: a -> c, and its doConvert always fails.
Decl ==
    [h \in Handlers |->
        CASE h = "H1" -> <<FmtA, FmtB>>
          [] h = "H2" -> <<FmtB0, FmtBin, FmtC, FmtC2>>
          [] h = "H3" -> <<FmtC>>
          [] h = "H4" -> <<FmtA, FmtC>>]

\* A format an older build of every handler still listed as an output.
FmtZ == Fmt("m/z", "z", "z", FALSE, TRUE)

\* The entry of a cache.json snapshot taken from that older build.
Snapshot == [h \in Handlers |-> Append(Decl[h], FmtZ)]

supportAnyInput == {"H3"}

\* Handlers whose conversion operation fails on every call.
AlwaysFails == {"H4"}

Node(f, h) == [format |-> f, handler |-> h]

from == Node(FmtA, "H1")
to == Node(FmtC2, "H2")

\* The candidate paths a search from `from` to the node class of `to` can
\* yield on this catalog.
PathPool ==
    { <<from, Node(FmtB, "H1"), Node(FmtC, "H2")>>,
      <<from, Node(FmtC, "H3")>>,
      <<from, Node(FmtC, "H4")>> }

\* Handlers that are constructed ready (ready = true in the class body, as
\* pdftoimg is) and were cached by the catalog build.
Eager == {"H4"}

\* The handlers a run over the candidates cs can touch, the eager ones apart.
OnPaths(cs) ==
    UNION {{cs[k][n].handler : n \in 2..Len(cs[k])} : k \in 1..Len(cs)} \ Eager

RECURSIVE SeqsUpTo(_, _)
SeqsUpTo(S, n) ==
    IF n = 0 THEN {<<>>}
    ELSE LET shorter == SeqsUpTo(S, n - 1)
         IN shorter \cup {Append(s, x) : s \in {t \in shorter : Len(t) = n - 1}, x \in S}

\* handlers: the registry, in registration order.
handlers == <<"H1", "H2", "H3", "H4">>

RECURSIVE OptionsFrom(_, _, _)
OptionsFrom(cache, h, k) ==
    IF h \notin DOMAIN cache \/ k > Len(cache[h]) THEN <<>>
    ELSE (IF cache[h][k].mime = "" THEN <<>> ELSE <<Node(cache[h][k], h)>>)
         \o OptionsFrom(cache, h, k + 1)

RECURSIVE OptionList(_, _)
\* buildOptionList's allOptions for a cache whose entries are all present:
\* per handler in registration order, one option per cached format with a mime.
OptionList(cache, n) ==
    IF n > Len(handlers) THEN <<>>
    ELSE OptionsFrom(cache, handlers[n], 1) \o OptionList(cache, n + 1)

\* The caller's input batch: one named file with a one-byte payload.
InputBatch == <<[name |-> "in", bytes |-> <<0>>]>>

VARIABLES
    supportedFormatCache, \* window.supportedFormatCache: handler name -> formats
    ready,                \* handler.ready, per handler
    handlerFormats,       \* handler.supportedFormats, per handler (a Map: absent = undefined)
    searchSeq,            \* the paths searchPath's generator yields, in order
    yielded,              \* how many paths the generator has handed out
    requests,             \* how many times the loop asked the generator for a path
    files,                \* tryConvertByTraversing's parameter `files`
    pc,                   \* position of the running call
    path,                 \* attemptConvertPath's parameter `path`
    attemptFiles,         \* attemptConvertPath's own `files` (parameter, rebound per hop)
    i,                    \* attemptConvertPath's loop index
    supportedFormats,     \* attemptConvertPath's local `supportedFormats` (optional)
    result,               \* what tryConvertByTraversing returned (optional; read when pc = "done")
    attempts,             \* history: each attemptConvertPath call, [path, ret]
    calls,                \* history: each handler operation invoked
    allOptions,           \* the option list buildOptionList left behind
    \* handler lifecycle and catalog builds
    simpleMode,           \* let simpleMode
    builds,               \* the buildOptionList runs of this process, in start order
    instance,             \* per handler: the object init() runs on (LazyHandler.#instance)
    initCalls,            \* history: handler.init() invocations, per handler
    instInits,            \* history: init() invocations on a handler's instances, per handler
    succeeded,            \* history: handlers one of whose init() calls has returned
    exported,             \* what the previous process exported and listed (optional)
    \* traversion graph
    graphCatalog,         \* the cache as it was at the last traversionGraph.init()
    graphMode,            \* simpleMode as it was at the last traversionGraph.init()
    searchedStale,        \* history: a searchPath call ran on a graph of an older catalog or mode
    \* batch run of convertButton.onclick
    bpc,                  \* position of the batch run
    batchFiles,           \* the batch, one kind per file
    fileIdx,              \* index of the file the loop is at
    conversionCancelled,  \* let conversionCancelled
    cancelledAt,          \* history: the file in flight when Cancel was clicked (optional)
    allOutputFiles,       \* the run's allOutputFiles
    downloads,            \* history: files handed to downloadFile
    produced,             \* history: output files the run produced
    raised,               \* history: handlers whose init() raised for an earlier file
    totalFiles,           \* const totalFiles
    completedFiles,       \* let completedFiles
    begun,                \* history: the files the loop has bound to bf, in order
    \* the page's controls
    mergeMode,            \* let mergeMode
    individualMode,       \* let individualMode
    inputSelected,        \* the option of the #from-list button of class "selected" (optional)
    outputSelected,       \* the option of the #to-list button of class "selected" (optional)
    convertEnabled,       \* ui.convertButton.className is not 'disabled'
    activePresetIndex,    \* pdftoimg: let activePresetIndex
    presetCalls,          \* history: the arguments of the setPdfQualityPreset calls
    earlier               \* history: for each run that has ended, whether it was cancelled

lifeVars == <<simpleMode, builds, instance, initCalls, instInits, succeeded, exported>>
graphVars == <<graphCatalog, graphMode, searchedStale>>
batchVars == <<bpc, batchFiles, fileIdx, conversionCancelled, cancelledAt, allOutputFiles,
               downloads, produced, raised, totalFiles, completedFiles, begun>>
uiVars == <<mergeMode, individualMode, inputSelected, outputSelected, convertEnabled,
            activePresetIndex, presetCalls, earlier>>
outerVars == <<lifeVars, graphVars, batchVars, uiVars>>

vars == <<supportedFormatCache, ready, handlerFormats, searchSeq, yielded, requests,
          files, pc, path, attemptFiles, i, supportedFormats, result, attempts, calls,
          allOptions, outerVars>>

handlerVars == <<supportedFormatCache, ready, handlerFormats, allOptions>>
searchVars == <<searchSeq, yielded, requests>>

----------------------------------------------------------------------------
(* Pure helpers *)

\* Map.get: the entry, or undefined.
CacheGet(cache, h) == IF h \in DOMAIN cache THEN Some(cache[h]) ELSE None

\* Map.set.
CacheSet(cache, h, v) == [k \in (DOMAIN cache) \cup {h} |-> IF k = h THEN v ELSE cache[k]]

RECURSIVE FindFrom(_, _, _)
FindFrom(list, prev, k) ==
    IF k > Len(list) THEN None
    ELSE IF list[k].mime = prev.mime /\ list[k].from THEN Some(list[k])
    ELSE FindFrom(list, prev, k + 1)

\* supportedFormats.find(c => c.mime === path[i].format.mime && c.from)
FindInputFormat(list, prev) == FindFrom(list, prev, 1)

\* Faulty variant: only the first file of the batch is looked at.
SomeEmpty_FirstOnly(batch) == Len(batch) > 0 /\ Len(batch[1].bytes) = 0

\* files.some(c => !c.bytes.length)
SomeEmpty(batch) == \E k \in 1..Len(batch) : Len(batch[k].bytes) = 0

\* Faulty variant: the final node is compared by its format.
SubstituteFinalHop_ByFormat(p, target) ==
    IF Len(p) > 0 /\ p[Len(p)].format = target.format
    THEN [p EXCEPT ![Len(p)] = target]
    ELSE p

\* if (path.at(-1)?.handler === to.handler) path[path.length - 1] = to;
SubstituteFinalHop(p, target) ==
    IF Len(p) > 0 /\ p[Len(p)].handler = target.handler
    THEN [p EXCEPT ![Len(p)] = target]
    ELSE p

\* What a conversion that does not throw hands back; the payload of a file it
\* produced is the number of the call that produced it.
ConvOutput(kind, id) ==
    CASE kind = "oneFile" -> <<[name |-> "out", bytes |-> <<id>>]>>
      [] kind = "mixedEmpty" -> <<[name |-> "out", bytes |-> <<id>>],
                                  [name |-> "out2", bytes |-> <<>>]>>
      [] kind = "noFiles" -> <<>>

\* The ways one doConvert call of handler h can end.
ConvOutcomes(h) ==
    IF h \in AlwaysFails THEN {"throws", "mixedEmpty"}
    ELSE {"throws", "oneFile", "mixedEmpty", "noFiles"}

InitOutcomes == {"throws", "ok", "okNoFormats"}

\* The handler of hop i (0-based): path[i + 1].handler.
HopHandler == path[i + 2].handler

SetLastRet(r) == [attempts EXCEPT ![Len(attempts)].ret = r]

\* History entry of an attemptConvertPath call: its path, what it returned,
\* and the cache and option list it was entered with.
NewAttempt(p) ==
    [path |-> p, ret |-> "pending", cache |-> supportedFormatCache, options |-> allOptions]

\* History entry of a handler operation of the current hop.
NewCall(op, inFiles, inputFormat, outputFormat, outcome) ==
    [op |-> op, handler |-> HopHandler, attempt |-> Len(attempts), hop |-> i,
     files |-> inFiles, inputFormat |-> inputFormat, outputFormat |-> outputFormat,
     outcome |-> outcome, out |-> <<>>, cache |-> supportedFormatCache]

----------------------------------------------------------------------------
(* Handler objects, catalog builds, the batch run: what the routing run above
   leaves alone. *)

\* Most catalog builds one process starts (the startup build and mode toggles).
MaxBuilds == 2

\* Most files of a batch.
MaxFiles == 2

\* Handlers registered through a LazyHandler wrapper; the others are objects
\* of their own class, constructed when the registry is built.
Lazy == {"H1", "H2"}

\* handlers.find(h => h.name === "imagesToPdf"): a class constructed with
\* ready = false and its formats declared.
mergeHandler == "H3"

\* The object init() runs on: for a LazyHandler its #instance (id 0: none
\* yet; the id counts the objects constructed), for another handler itself.
NoInstance == [id |-> 0, ready |-> FALSE, formats |-> None]

FreshInstances ==
    [h \in Handlers |->
        IF h \in Lazy THEN NoInstance
        ELSE [id |-> 1, ready |-> h \in Eager, formats |-> Some(Decl[h])]]

FreshReady == [h \in Handlers |-> h \in Eager]

\* The handler objects of a process in which the handlers that are ready, and
\* no others, have had their init(): a ready LazyHandler has constructed its
\* #instance.
InstancesOf(rdy) ==
    [h \in Handlers |->
        IF h \in Lazy
        THEN (IF rdy[h] THEN [id |-> 1, ready |-> TRUE, formats |-> Some(Decl[h])]
              ELSE NoInstance)
        ELSE [id |-> 1, ready |-> rdy[h], formats |-> Some(Decl[h])]]

FreshFormats == [h \in Handlers \ Lazy |-> Decl[h]]

\* this.supportedFormats = this.#instance.supportedFormats
CopyFormats(hf, h, f) ==
    IF f = None THEN [k \in (DOMAIN hf) \ {h} |-> hf[k]] ELSE CacheSet(hf, h, f[1])

\* What one init() call on an object of handler h can do.
InitOutcomesOf(h) == IF h \in Lazy THEN InitOutcomes ELSE {"throws", "ok"}

\* JSON.stringify / r.json() of one format descriptor: its data fields.
JsonFormat(f) ==
    [mime |-> f.mime, format |-> f.format, internal |-> f.internal,
     from |-> f.from, to |-> f.to]

JsonFormats(list) == [k \in 1..Len(list) |-> JsonFormat(list[k])]

RECURSIVE ExportFrom(_, _)
\* printSupportedFormatCache: the [name, formats] entries of the cache (here in
\* registration order; the seeded Map is read by key only).
ExportFrom(cache, n) ==
    IF n > Len(handlers) THEN <<>>
    ELSE (IF handlers[n] \in DOMAIN cache
          THEN <<<<handlers[n], JsonFormats(cache[handlers[n]])>>>>
          ELSE <<>>) \o ExportFrom(cache, n + 1)

printSupportedFormatCache(cache) == ExportFrom(cache, 1)

\* new Map(cacheJSON)
SeedCache(cacheJSON) ==
    [h \in {cacheJSON[k][1] : k \in 1..Len(cacheJSON)} |->
        LET k == CHOOSE n \in 1..Len(cacheJSON) :
                    /\ cacheJSON[n][1] = h
                    /\ \A m \in (n + 1)..Len(cacheJSON) : cacheJSON[m][1] # h
        IN cacheJSON[k][2]]

RECURSIVE BuildRun(_, _, _)
\* buildOptionList's loop from handler k on, up to the next handler without a
\* cache entry: the options pushed and where the loop stands.
BuildRun(cache, options, k) ==
    IF k > Len(handlers) \/ handlers[k] \notin DOMAIN cache
    THEN [k |-> k, options |-> options]
    ELSE BuildRun(cache, options \o OptionsFrom(cache, handlers[k], 1), k + 1)

NewBuild ==
    [k |-> 1, phase |-> "running", inst |-> 0, threw |-> {}, inits |-> {},
     options |-> <<>>, cache |-> <<>>]

LifeIdle ==
    /\ simpleMode = TRUE
    /\ builds = <<>>
    /\ instance = InstancesOf(ready)
    /\ initCalls = [h \in Handlers |-> 0]
    /\ instInits = [h \in Handlers |-> 0]
    /\ succeeded = {}
    /\ exported = None

\* The graph was built from the catalog the run starts with.
GraphIdle ==
    /\ graphCatalog = supportedFormatCache
    /\ graphMode = simpleMode
    /\ searchedStale = FALSE

BatchIdle ==
    /\ bpc = "idle"
    /\ batchFiles = <<>>
    /\ fileIdx = 0
    /\ conversionCancelled = FALSE
    /\ cancelledAt = None
    /\ allOutputFiles = <<>>
    /\ downloads = <<>>
    /\ produced = <<>>
    /\ raised = {}
    /\ totalFiles = 0
    /\ completedFiles = 0
    /\ begun = <<>>

\* The controls of the page as it is loaded, with the PDF quality preset
\* "High".
UiIdle ==
    /\ mergeMode = FALSE
    /\ individualMode = FALSE
    /\ inputSelected = None
    /\ outputSelected = None
    /\ convertEnabled = FALSE
    /\ activePresetIndex = 2
    /\ presetCalls = <<>>
    /\ earlier = <<>>

OuterIdle == LifeIdle /\ GraphIdle /\ BatchIdle /\ UiIdle

----------------------------------------------------------------------------
Init ==
    /\ searchSeq \in SeqsUpTo(PathPool, MaxCands)
    \* Any cache and readiness of the handlers on the candidate paths; the
    \* others, which the run never reads, are fresh.  A cache entry was
    \* written by an earlier init() or seeded from an older snapshot.
    \* A handler whose entry is a snapshot's has not been initialised.
    /\ \E cached \in SUBSET OnPaths(searchSeq) : \E seeded \in SUBSET cached :
         \E rdy \in SUBSET (OnPaths(searchSeq) \ seeded) :
           /\ supportedFormatCache =
                 [h \in cached \cup Eager |-> IF h \in seeded THEN Snapshot[h] ELSE Decl[h]]
           /\ ready = [h \in Handlers |-> h \in rdy \cup Eager]
    /\ handlerFormats = [h \in {x \in Handlers : ready[x]} |-> Decl[h]]
    /\ yielded = 0
    /\ requests = 0
    /\ files = InputBatch
    /\ pc = "search"
    /\ path = <<>>
    /\ attemptFiles = <<>>
    /\ i = 0
    /\ supportedFormats = None
    /\ result = None
    /\ attempts = <<>>
    /\ calls = <<>>
    /\ allOptions = OptionList(supportedFormatCache, 1)
    /\ OuterIdle

\* Faulty variant: the next attempt goes on from the batch the previous attempt left.
SearchNext_Carry ==
    /\ pc = "search"
    /\ yielded < Len(searchSeq)
    /\ yielded' = yielded + 1
    /\ requests' = requests + 1
    /\ path' = SubstituteFinalHop(searchSeq[yielded + 1], to)
    /\ attemptFiles' = IF attempts = <<>> THEN files ELSE attemptFiles
    /\ i' = 0
    /\ attempts' = Append(attempts, NewAttempt(path'))
    /\ pc' = "hop"
    /\ UNCHANGED <<handlerVars, searchSeq, files, supportedFormats, result, calls>>
    /\ UNCHANGED outerVars

\* Faulty variant: the search is started anew for every attempt.
SearchNext_Again ==
    /\ pc = "search"
    /\ yielded < Len(searchSeq)
    /\ yielded' = yielded + 1
    /\ requests' = requests + 1
    /\ path' = SubstituteFinalHop(searchSeq[1], to)
    /\ attemptFiles' = files
    /\ i' = 0
    /\ attempts' = Append(attempts, NewAttempt(path'))
    /\ pc' = "hop"
    /\ UNCHANGED <<handlerVars, searchSeq, files, supportedFormats, result, calls>>
    /\ UNCHANGED outerVars

\* for await (const path of searchPath(...)): the generator yields a path;
\* the final hop is substituted and attemptConvertPath(files, path) is entered.
SearchNext ==
    /\ pc = "search"
    /\ yielded < Len(searchSeq)
    /\ yielded' = yielded + 1
    /\ requests' = requests + 1
    /\ path' = SubstituteFinalHop(searchSeq[yielded + 1], to)
    /\ attemptFiles' = files
    /\ i' = 0
    /\ attempts' = Append(attempts, NewAttempt(path'))
    /\ pc' = "hop"
    /\ UNCHANGED <<handlerVars, searchSeq, files, supportedFormats, result, calls>>
    /\ UNCHANGED outerVars

\* Faulty variant: an exhausted search returns what the last attempt left behind.
SearchExhausted_ReturnsPartial ==
    /\ pc = "search"
    /\ yielded = Len(searchSeq)
    /\ requests' = requests + 1
    /\ result' = IF attempts = <<>> THEN None
                 ELSE Some([files |-> attemptFiles, path |-> path])
    /\ pc' = "done"
    /\ UNCHANGED <<handlerVars, searchSeq, yielded, files, path, attemptFiles, i,
                   supportedFormats, attempts, calls>>
    /\ UNCHANGED outerVars

\* The generator is exhausted: return null.
SearchExhausted ==
    /\ pc = "search"
    /\ yielded = Len(searchSeq)
    /\ requests' = requests + 1
    /\ result' = None
    /\ pc' = "done"
    /\ UNCHANGED <<handlerVars, searchSeq, yielded, files, path, attemptFiles, i,
                   supportedFormats, attempts, calls>>
    /\ UNCHANGED outerVars

\* Top of the hop loop: read the cache, test handler.ready.
HopStart ==
    /\ pc = "hop"
    /\ i < Len(path) - 1
    /\ supportedFormats' = CacheGet(supportedFormatCache, HopHandler)
    /\ pc' = IF ready[HopHandler] THEN "find" ELSE "init"
    /\ UNCHANGED <<handlerVars, searchVars, files, path, attemptFiles, i, result,
                   attempts, calls>>
    /\ UNCHANGED outerVars

\* Faulty variant: the driving loop records the successful attempt but goes on to
\* the next candidate instead of returning.
AttemptSucceed_NoReturn ==
    /\ pc = "hop"
    /\ i >= Len(path) - 1
    /\ attempts' = SetLastRet("ok")
    /\ result' = Some([files |-> attemptFiles, path |-> path])
    /\ pc' = "search"
    /\ UNCHANGED <<handlerVars, searchVars, files, path, attemptFiles, i,
                   supportedFormats, calls>>
    /\ UNCHANGED outerVars

\* The loop is over: return { files, path }; the driving loop returns it.
AttemptSucceed ==
    /\ pc = "hop"
    /\ i >= Len(path) - 1
    /\ attempts' = SetLastRet("ok")
    /\ result' = Some([files |-> attemptFiles, path |-> path])
    /\ pc' = "done"
    /\ UNCHANGED <<handlerVars, searchVars, files, path, attemptFiles, i,
                   supportedFormats, calls>>
    /\ UNCHANGED outerVars

\* Faulty variant: a throwing init() is swallowed and the hop goes on.
HandlerInit_Swallow ==
    /\ pc = "init"
    /\ \E o \in InitOutcomes :
        LET h == HopHandler
            hf == IF o = "ok" THEN CacheSet(handlerFormats, h, Decl[h]) ELSE handlerFormats
        IN  /\ calls' = Append(calls, NewCall("init", <<>>, None, None, o))
            /\ IF o = "throws"
               THEN UNCHANGED <<handlerVars, supportedFormats>>
               ELSE /\ ready' = [ready EXCEPT ![h] = TRUE]
                    /\ handlerFormats' = hf
                    /\ IF h \in DOMAIN hf
                       THEN /\ supportedFormatCache' = CacheSet(supportedFormatCache, h, hf[h])
                            /\ supportedFormats' = Some(hf[h])
                       ELSE UNCHANGED <<supportedFormatCache, supportedFormats>>
                    /\ UNCHANGED allOptions
            /\ pc' = "find"
    /\ UNCHANGED <<searchVars, files, path, attemptFiles, i, result, attempts>>
    /\ UNCHANGED outerVars

\* await handler.init() for a handler that is not ready.  On a LazyHandler
\* without an instance this is: const mod = await this.#importFn();
\* this.#instance = new mod.default(); await this.#instance.init(); then the
\* wrapper copies ready and supportedFormats.
HandlerInit ==
    /\ pc = "init"
    /\ \E o \in InitOutcomes :
        LET h == HopHandler
            call == NewCall("init", <<>>, None, None, o)
            hf == IF o = "ok" THEN CacheSet(handlerFormats, h, Decl[h]) ELSE handlerFormats
            id == IF h \in Lazy /\ instance[h].id = 0 THEN 1 ELSE instance[h].id
        IN  /\ calls' = Append(calls, call)
            /\ initCalls' = [initCalls EXCEPT ![h] = @ + 1]
            /\ instInits' = [instInits EXCEPT ![h] = @ + 1]
            /\ IF o = "throws"
               THEN /\ attempts' = SetLastRet("null")
                    /\ pc' = "search"
                    /\ instance' = [instance EXCEPT ![h].id = id]
                    /\ UNCHANGED <<handlerVars, supportedFormats, succeeded>>
               ELSE /\ ready' = [ready EXCEPT ![h] = TRUE]
                    /\ handlerFormats' = hf
                    /\ instance' = [instance EXCEPT ![h] =
                           [id |-> id, ready |-> TRUE,
                            formats |-> IF o = "ok" THEN Some(Decl[h]) ELSE @.formats]]
                    /\ succeeded' = succeeded \cup {h}
                    /\ IF h \in DOMAIN hf
                       THEN /\ supportedFormatCache' = CacheSet(supportedFormatCache, h, hf[h])
                            /\ supportedFormats' = Some(hf[h])
                       ELSE UNCHANGED <<supportedFormatCache, supportedFormats>>
                    /\ pc' = "find"
                    /\ UNCHANGED <<attempts, allOptions>>
    /\ UNCHANGED <<searchVars, files, path, attemptFiles, i, result>>
    /\ UNCHANGED <<simpleMode, builds, exported, graphVars, batchVars, uiVars>>

\* Faulty variant: the missing-formats test is gone; the conversion is called with
\* no input descriptor.
NoFormats_CallsAnyway ==
    /\ pc = "find"
    /\ supportedFormats = None
    /\ calls' = Append(calls, NewCall("doConvert", attemptFiles, None,
                                      Some(path[i + 2].format), "pending"))
    /\ pc' = "converting"
    /\ UNCHANGED <<handlerVars, searchVars, files, path, attemptFiles, i,
                   supportedFormats, result, attempts>>
    /\ UNCHANGED outerVars

\* if (!supportedFormats) throw ...; caught, return null.
NoFormats ==
    /\ pc = "find"
    /\ supportedFormats = None
    /\ attempts' = SetLastRet("null")
    /\ pc' = "search"
    /\ UNCHANGED <<handlerVars, searchVars, files, path, attemptFiles, i,
                   supportedFormats, result, calls>>
    /\ UNCHANGED outerVars

\* Faulty variant: every hop is handed the batch the attempt was entered with.
ConvertCall_OriginalFiles ==
    /\ pc = "find"
    /\ supportedFormats # None
    /\ LET inputFormat == FindInputFormat(supportedFormats[1], path[i + 1].format)
       IN calls' = Append(calls, NewCall("doConvert", files, inputFormat,
                                         Some(path[i + 2].format), "pending"))
    /\ pc' = "converting"
    /\ UNCHANGED <<handlerVars, searchVars, files, path, attemptFiles, i,
                   supportedFormats, result, attempts>>
    /\ UNCHANGED outerVars

\* find the input descriptor and call handler.doConvert(files, inputFormat, path[i+1].format)
ConvertCall ==
    /\ pc = "find"
    /\ supportedFormats # None
    /\ LET inputFormat == FindInputFormat(supportedFormats[1], path[i + 1].format)
       IN calls' = Append(calls, NewCall("doConvert", attemptFiles, inputFormat,
                                         Some(path[i + 2].format), "pending"))
    /\ pc' = "converting"
    /\ UNCHANGED <<handlerVars, searchVars, files, path, attemptFiles, i,
                   supportedFormats, result, attempts>>
    /\ UNCHANGED outerVars

\* Faulty variant: a rejected conversion is swallowed and the loop goes on to the
\* next hop with the batch it had.
ConvertReturn_Swallow ==
    /\ pc = "converting"
    /\ \E o \in ConvOutcomes(HopHandler) :
        LET id == Len(calls)
            out == IF o = "throws" THEN <<>> ELSE ConvOutput(o, id)
        IN  /\ calls' = [calls EXCEPT ![id].outcome = o, ![id].out = out]
            /\ IF o = "throws"
               THEN /\ i' = i + 1
                    /\ pc' = "hop"
                    /\ UNCHANGED <<attemptFiles, attempts>>
               ELSE /\ attemptFiles' = out
                    /\ IF SomeEmpty(out)
                       THEN /\ attempts' = SetLastRet("null")
                            /\ pc' = "search"
                            /\ UNCHANGED i
                       ELSE /\ i' = i + 1
                            /\ pc' = "hop"
                            /\ UNCHANGED attempts
    /\ UNCHANGED <<handlerVars, searchVars, files, path, supportedFormats, result>>
    /\ UNCHANGED outerVars

\* doConvert settles: a rejection or an empty payload ends the attempt with null.
ConvertReturn ==
    /\ pc = "converting"
    /\ \E o \in ConvOutcomes(HopHandler) :
        LET id == Len(calls)
            out == IF o = "throws" THEN <<>> ELSE ConvOutput(o, id)
        IN  /\ calls' = [calls EXCEPT ![id].outcome = o, ![id].out = out]
            /\ IF o = "throws"
               THEN /\ attempts' = SetLastRet("null")
                    /\ pc' = "search"
                    /\ UNCHANGED <<attemptFiles, i>>
               ELSE /\ attemptFiles' = out
                    /\ IF SomeEmpty(out)
                       THEN /\ attempts' = SetLastRet("null")
                            /\ pc' = "search"
                            /\ UNCHANGED i
                       ELSE /\ i' = i + 1
                            /\ pc' = "hop"
                            /\ UNCHANGED attempts
    /\ UNCHANGED <<handlerVars, searchVars, files, path, supportedFormats, result>>
    /\ UNCHANGED outerVars

Next ==
    \/ SearchNext
    \/ SearchExhausted
    \/ HopStart
    \/ AttemptSucceed
    \/ HandlerInit
    \/ NoFormats
    \/ ConvertCall
    \/ ConvertReturn

Spec == Init /\ [][Next]_vars

----------------------------------------------------------------------------
(* The process over its lifetime: catalog builds that overlap at their await
   points, the handler preparation of path attempts and of merge
   conversions, and a restart seeded from the exported cache. *)

routeVars == <<searchSeq, yielded, requests, files, pc, path, attemptFiles, i,
               supportedFormats, result, attempts, calls>>

RouteIdle ==
    /\ searchSeq = <<>>
    /\ yielded = 0
    /\ requests = 0
    /\ files = <<>>
    /\ pc = "idle"
    /\ path = <<>>
    /\ attemptFiles = <<>>
    /\ i = 0
    /\ supportedFormats = None
    /\ result = None
    /\ attempts = <<>>
    /\ calls = <<>>

\* cache.json: the handlers it may hold an entry of an older build for, and
\* the handlers it holds an entry for in any case (of the current build
\* unless of the older one).
SeedStale == {"H1", "H3"}
SeedAlways == {"H3", "H4"}

\* The process after the cache.json fetch has settled, before the startup build.
LifeInit ==
    /\ \E stale \in SUBSET SeedStale :
         supportedFormatCache =
             SeedCache(printSupportedFormatCache(
                 [h \in stale \cup SeedAlways |->
                     IF h \in stale THEN Snapshot[h] ELSE Decl[h]]))
    /\ ready = FreshReady
    /\ handlerFormats = FreshFormats
    /\ allOptions = <<>>
    /\ RouteIdle
    /\ LifeIdle
    /\ graphCatalog = <<>>
    /\ graphMode = simpleMode
    /\ searchedStale = FALSE
    /\ BatchIdle
    /\ UiIdle

\* buildOptionList from handler k0 on, with the cache c and the options o it
\* has so far, as far as it runs without waiting: either to its end
\* (traversionGraph.init()) or into the init() call of the next handler that
\* has no cache entry.  ins, rdy, hf: the handler objects as the caller left
\* them; mode: simpleMode.
BuildContinue(b, bs, c, o, k0, ins, rdy, hf, mode) ==
    LET r == BuildRun(c, o, k0)
    IN  /\ supportedFormatCache' = c
        /\ allOptions' = r.options
        /\ instance' = ins
        /\ IF r.k > Len(handlers)
           THEN /\ builds' = [bs EXCEPT ![b].k = r.k, ![b].phase = "done",
                                         ![b].options = r.options, ![b].cache = c]
                /\ graphCatalog' = c
                /\ graphMode' = mode
                /\ ready' = rdy
                /\ handlerFormats' = hf
                /\ UNCHANGED <<initCalls, instInits>>
           ELSE LET h == handlers[r.k]
                    called == [bs EXCEPT ![b].k = r.k, ![b].inits = @ \cup {h}]
                IN  /\ initCalls' = [initCalls EXCEPT ![h] = @ + 1]
                    /\ UNCHANGED <<graphCatalog, graphMode>>
                    /\ CASE h \in Lazy /\ ins[h].id = 0 ->
                              \* const mod = await this.#importFn()
                              /\ builds' = [called EXCEPT ![b].phase = "importing"]
                              /\ ready' = rdy
                              /\ handlerFormats' = hf
                              /\ UNCHANGED instInits
                         [] h \in Lazy /\ ins[h].id # 0 /\ ins[h].ready ->
                              \* the instance is ready: copy its fields, return
                              /\ builds' = [called EXCEPT ![b].phase = "copied"]
                              /\ ready' = [rdy EXCEPT ![h] = TRUE]
                              /\ handlerFormats' = CopyFormats(hf, h, ins[h].formats)
                              /\ UNCHANGED instInits
                         [] OTHER ->
                              \* await this.#instance.init(), or the class's own init()
                              /\ builds' = [called EXCEPT ![b].phase = "instInit",
                                                          ![b].inst = ins[h].id]
                              /\ instInits' = [instInits EXCEPT ![h] = @ + 1]
                              /\ ready' = rdy
                              /\ handlerFormats' = hf

\* buildOptionList is called: the startup build, or a click on the mode toggle.
\* ui.inputList.innerHTML = ""; ui.outputList.innerHTML = "": the buttons of
\* both lists are gone, and the selection with them.
BuildStart ==
    /\ Len(builds) < MaxBuilds
    \* at most two builds wait at a time
    /\ Cardinality({b \in 1..Len(builds) : builds[b].phase # "done"}) <= 1
    /\ exported # None => builds = <<>>
    /\ simpleMode' = IF builds = <<>> THEN simpleMode ELSE ~simpleMode
    /\ BuildContinue(Len(builds) + 1, Append(builds, NewBuild), supportedFormatCache,
                     <<>>, 1, instance, ready, handlerFormats,
                     IF builds = <<>> THEN simpleMode ELSE ~simpleMode)
    /\ inputSelected' = None
    /\ outputSelected' = None
    /\ UNCHANGED <<succeeded, exported, searchedStale, routeVars, batchVars, mergeMode,
                   individualMode, convertEnabled, activePresetIndex, presetCalls,
                   earlier>>

\* LazyHandler.init: the import has settled; construct the instance and call
\* its init().
BuildImportDone ==
    \E b \in 1..Len(builds) :
        /\ builds[b].phase = "importing"
        /\ LET h == handlers[builds[b].k]
               id == instance[h].id + 1
           IN  /\ instance' = [instance EXCEPT ![h] = [id |-> id, ready |-> FALSE,
                                                       formats |-> None]]
               /\ instInits' = [instInits EXCEPT ![h] = @ + 1]
               /\ builds' = [builds EXCEPT ![b].phase = "instInit", ![b].inst = id]
        /\ UNCHANGED <<supportedFormatCache, ready, handlerFormats, allOptions,
                       simpleMode, initCalls, succeeded, exported, graphVars,
                       routeVars, batchVars, uiVars>>


\* The init() call build b waits for has returned without throwing: the
\* object it ran on is ready, the wrapper copies #instance, the build caches
\* and lists the handler's formats and goes on.
BuildInitSettled(b, h, o) ==
    LET own == builds[b].phase = "instInit" /\ instance[h].id = builds[b].inst
        ins == IF own
               THEN [instance EXCEPT ![h].ready = TRUE,
                                     ![h].formats = IF o = "ok" THEN Some(Decl[h]) ELSE None]
               ELSE instance
        rdy == IF builds[b].phase = "copied" THEN ready
               ELSE [ready EXCEPT ![h] = ins[h].ready]
        hf == IF builds[b].phase = "copied" THEN handlerFormats
              ELSE CopyFormats(handlerFormats, h, ins[h].formats)
        c == IF h \in DOMAIN hf THEN CacheSet(supportedFormatCache, h, hf[h])
             ELSE supportedFormatCache
        opts == IF h \in DOMAIN c THEN allOptions \o OptionsFrom(c, h, 1) ELSE allOptions
    IN  /\ BuildContinue(b, builds, c, opts, builds[b].k + 1, ins, rdy, hf, simpleMode)
        /\ succeeded' = succeeded \cup {h}

\* Faulty variant: a throwing init() ends the build where it stands.
BuildInitReturn_Rethrow ==
    \E b \in 1..Len(builds) :
        /\ builds[b].phase \in {"instInit", "copied"}
        /\ LET h == handlers[builds[b].k]
           IN \E o \in (IF builds[b].phase = "copied" THEN {"ok"} ELSE InitOutcomesOf(h)) :
                IF o = "throws"
                THEN /\ builds' = [builds EXCEPT ![b].threw = @ \cup {h}, ![b].phase = "done",
                                                  ![b].options = allOptions,
                                                  ![b].cache = supportedFormatCache]
                     /\ UNCHANGED <<supportedFormatCache, ready, handlerFormats, allOptions,
                                    instance, initCalls, instInits, succeeded,
                                    graphCatalog, graphMode>>
                ELSE BuildInitSettled(b, h, o)
        /\ UNCHANGED <<simpleMode, exported, searchedStale, routeVars, batchVars, uiVars>>

\* await handler.init() of a build settles: catch (_) { continue; } or cache,
\* list and go on.
BuildInitReturn ==
    \E b \in 1..Len(builds) :
        /\ builds[b].phase \in {"instInit", "copied"}
        /\ LET h == handlers[builds[b].k]
           IN \E o \in (IF builds[b].phase = "copied" THEN {"ok"} ELSE InitOutcomesOf(h)) :
                IF o = "throws"
                THEN /\ BuildContinue(b, [builds EXCEPT ![b].threw = @ \cup {h}],
                                      supportedFormatCache, allOptions, builds[b].k + 1,
                                      instance, ready, handlerFormats, simpleMode)
                     /\ UNCHANGED succeeded
                ELSE BuildInitSettled(b, h, o)
        /\ UNCHANGED <<simpleMode, exported, searchedStale, routeVars, batchVars, uiVars>>

\* One init() call on handler h that settles before anything else runs, made
\* for a handler that is not ready and has had no init() call yet, while no
\* catalog build is waiting; writeCache: the caller stores the handler's
\* formats in the cache afterwards.
InitNow(h, writeCache) ==
    /\ ~ready[h]
    /\ initCalls[h] = 0
    /\ exported = None
    /\ \A b \in 1..Len(builds) : builds[b].phase = "done"
    /\ initCalls' = [initCalls EXCEPT ![h] = @ + 1]
    /\ IF h \in Lazy /\ instance[h].id # 0 /\ instance[h].ready
       THEN LET hf == CopyFormats(handlerFormats, h, instance[h].formats)
            IN  /\ ready' = [ready EXCEPT ![h] = TRUE]
                /\ handlerFormats' = hf
                /\ supportedFormatCache' =
                       IF writeCache /\ h \in DOMAIN hf
                       THEN CacheSet(supportedFormatCache, h, hf[h])
                       ELSE supportedFormatCache
                /\ succeeded' = succeeded \cup {h}
                /\ UNCHANGED <<instance, instInits>>
       ELSE LET ins0 == IF h \in Lazy /\ instance[h].id = 0
                        THEN [instance EXCEPT ![h] = [id |-> 1, ready |-> FALSE,
                                                      formats |-> None]]
                        ELSE instance
            IN  /\ instInits' = [instInits EXCEPT ![h] = @ + 1]
                /\ \E o \in InitOutcomesOf(h) :
                     IF o = "throws"
                     THEN /\ instance' = ins0
                          /\ UNCHANGED <<ready, handlerFormats, supportedFormatCache,
                                         succeeded>>
                     ELSE LET ins == [ins0 EXCEPT ![h].ready = TRUE,
                                          ![h].formats = IF o = "ok" THEN Some(Decl[h])
                                                         ELSE None]
                              hf == CopyFormats(handlerFormats, h, ins[h].formats)
                          IN  /\ instance' = ins
                              /\ ready' = [ready EXCEPT ![h] = TRUE]
                              /\ handlerFormats' = hf
                              /\ supportedFormatCache' =
                                     IF writeCache /\ h \in DOMAIN hf
                                     THEN CacheSet(supportedFormatCache, h, hf[h])
                                     ELSE supportedFormatCache
                              /\ succeeded' = succeeded \cup {h}

\* attemptConvertPath prepares a hop through a handler of the graph:
\* if (!handler.ready) { await handler.init(); cache its formats }.
HopInit ==
    /\ \E h \in DOMAIN graphCatalog : InitNow(h, TRUE)
    /\ UNCHANGED <<allOptions, simpleMode, builds, exported, graphVars, routeVars,
                   batchVars, uiVars>>

\* handleMergeConvert: if (!mergeHandler.ready) await mergeHandler.init().
MergeInit ==
    /\ InitNow(mergeHandler, FALSE)
    /\ UNCHANGED <<allOptions, simpleMode, builds, exported, graphVars, routeVars,
                   batchVars, uiVars>>

\* The cache is exported with printSupportedFormatCache after the startup
\* build, before any other build, and a fresh process is seeded from the export.
Restart ==
    /\ exported = None
    /\ Len(builds) = 1
    /\ builds[1].phase = "done"
    /\ LET cacheJSON == printSupportedFormatCache(supportedFormatCache)
       IN  /\ exported' = Some([cache |-> SeedCache(cacheJSON), options |-> allOptions])
           /\ supportedFormatCache' = SeedCache(cacheJSON)
    /\ ready' = FreshReady
    /\ handlerFormats' = FreshFormats
    /\ allOptions' = <<>>
    /\ simpleMode' = TRUE
    /\ builds' = <<>>
    /\ instance' = FreshInstances
    /\ initCalls' = [h \in Handlers |-> 0]
    /\ instInits' = [h \in Handlers |-> 0]
    /\ succeeded' = {}
    /\ graphCatalog' = <<>>
    /\ graphMode' = TRUE
    /\ UNCHANGED <<searchedStale, routeVars, batchVars, uiVars>>

LifeNext ==
    \/ BuildStart
    \/ BuildImportDone
    \/ BuildInitReturn
    \/ HopInit
    \/ MergeInit
    \/ Restart

LifeSpec == LifeInit /\ [][LifeNext]_vars

----------------------------------------------------------------------------
(* The batch run of convertButton.onclick: one file after the other through
   tryConvertByTraversing, with the Cancel button of the progress popup. *)

\* What the loop does with a file: it has no output option, its output media
\* type is the input's, or it is routed.
FileKinds == {"noFormat", "sameMime", "convert"}

\* A BatchFile: its name, and what the loop will do with it; added: it was
\* put into the batch while a run was under way.
BatchFile(n, k, a) == [name |-> n, kind |-> k, added |-> a]

\* The batches selected before the run, sorted by name as fileSelectHandler
\* leaves them.
InitialBatches ==
    {[k \in 1..Len(s) |-> BatchFile(2 * k, s[k], FALSE)] :
        s \in SeqsUpTo(FileKinds, MaxFiles) \ {<<>>}}

\* cache.json entries that may come from an older build.
BatchStale == {"H1"}

\* The paths the search yields for a file, each at most once.
BatchSearches ==
    {s \in SeqsUpTo(PathPool, MaxCands) :
        /\ s # <<>>
        /\ \A m, n \in 1..Len(s) : m # n => s[m] # s[n]}

\* The page after the startup build on a complete cache.json, files selected.
BatchInit ==
    /\ searchSeq \in BatchSearches
    /\ \E stale \in SUBSET BatchStale :
         supportedFormatCache =
             [h \in Handlers |-> IF h \in stale THEN Snapshot[h] ELSE Decl[h]]
    /\ ready = FreshReady
    /\ handlerFormats = FreshFormats
    /\ allOptions = OptionList(supportedFormatCache, 1)
    /\ yielded = 0
    /\ requests = 0
    /\ files = <<>>
    /\ pc = "idle"
    /\ path = <<>>
    /\ attemptFiles = <<>>
    /\ i = 0
    /\ supportedFormats = None
    /\ result = None
    /\ attempts = <<>>
    /\ calls = <<>>
    /\ LifeIdle
    /\ GraphIdle
    /\ bpc = "idle"
    /\ batchFiles \in InitialBatches
    /\ fileIdx = 0
    \* an earlier run may have been cancelled
    /\ conversionCancelled \in BOOLEAN
    /\ cancelledAt = None
    /\ allOutputFiles = <<>>
    /\ downloads = <<>>
    /\ produced = <<>>
    /\ raised = {}
    /\ totalFiles = 0
    /\ completedFiles = 0
    /\ begun = <<>>
    /\ UiIdle

batchFrame == <<handlerVars, routeVars, lifeVars, graphVars, uiVars>>

\* The file the loop body is working on: const bf.
bf == begun[Len(begun)]

\* The run is waiting and an event handler can run.
AtAwait ==
    \/ bpc \in {"wait", "reading", "finalWait"}
    \/ bpc \in {"mergeWait", "mergeInit", "mergeReading", "mergeBuild", "mergeFinalWait"}
    \/ bpc = "routing" /\ pc \in {"search", "init", "converting"}

\* Faulty variant: the popup is built without touching the flag.
buildProgressPopup_KeepsFlag == UNCHANGED conversionCancelled

\* buildProgressPopup: conversionCancelled = false, then the popup with its
\* Cancel button is shown.
buildProgressPopup == conversionCancelled' = FALSE

\* The click on Convert outside merge mode: totalFiles is taken,
\* buildProgressPopup resets the flag, then the handler waits for two
\* animation frames.
BatchStart ==
    /\ bpc = "idle"
    /\ fileIdx = 0
    /\ batchFiles # <<>>
    /\ ~mergeMode
    /\ totalFiles' = Len(batchFiles)
    /\ completedFiles' = 0
    /\ buildProgressPopup
    /\ bpc' = "wait"
    /\ UNCHANGED <<batchFiles, fileIdx, cancelledAt, allOutputFiles, downloads, produced,
                   raised, begun, batchFrame>>

\* The frames have passed: the loop over batchFiles is entered.
FramesElapsed ==
    /\ bpc = "wait"
    /\ bpc' = "loop"
    /\ fileIdx' = 1
    /\ UNCHANGED <<batchFiles, conversionCancelled, cancelledAt, allOutputFiles,
                   downloads, produced, raised, totalFiles, completedFiles, begun,
                   batchFrame>>

\* cancelBtn.onclick, at a point where the run is waiting.
Cancel ==
    /\ AtAwait
    /\ ~conversionCancelled
    /\ conversionCancelled' = TRUE
    /\ cancelledAt' = Some([file |-> IF bpc \in {"reading", "routing"} THEN fileIdx ELSE 0,
                            calls |-> IF bpc = "routing" THEN Len(calls) ELSE 0,
                            produced |-> Len(produced)])
    /\ UNCHANGED <<bpc, batchFiles, fileIdx, allOutputFiles, downloads, produced, raised,
                   totalFiles, completedFiles, begun, batchFrame>>

\* Faulty variant: the loop head does not look at the flag.
FileBegin_IgnoresCancel ==
    /\ bpc = "loop"
    /\ fileIdx <= Len(batchFiles)
    /\ begun' = Append(begun, batchFiles[fileIdx])
    /\ IF batchFiles[fileIdx].kind = "noFormat"
       THEN /\ fileIdx' = fileIdx + 1
            /\ completedFiles' = completedFiles + 1
            /\ UNCHANGED bpc
       ELSE /\ bpc' = "reading"
            /\ UNCHANGED <<fileIdx, completedFiles>>
    /\ UNCHANGED <<batchFiles, conversionCancelled, cancelledAt, allOutputFiles,
                   downloads, produced, raised, totalFiles, batchFrame>>

\* Loop head for the next element of batchFiles: if (conversionCancelled)
\* break; a file without an output option is skipped, any other is read.
FileBegin ==
    /\ bpc = "loop"
    /\ fileIdx <= Len(batchFiles)
    /\ ~conversionCancelled
    /\ begun' = Append(begun, batchFiles[fileIdx])
    /\ IF batchFiles[fileIdx].kind = "noFormat"
       THEN /\ fileIdx' = fileIdx + 1
            /\ completedFiles' = completedFiles + 1
            /\ UNCHANGED bpc
       ELSE /\ bpc' = "reading"
            /\ UNCHANGED <<fileIdx, completedFiles>>
    /\ UNCHANGED <<batchFiles, conversionCancelled, cancelledAt, allOutputFiles,
                   downloads, produced, raised, totalFiles, batchFrame>>

\* The output files of the batch file named n, as pushed to allOutputFiles.
OutputsOf(n, out) == [k \in 1..Len(out) |-> [file |-> n, part |-> k, bytes |-> out[k].bytes]]

\* Faulty variant: the media types are not compared; every file that is read
\* is routed.
FileRead_RoutesSameMime ==
    /\ bpc = "reading"
    /\ IF FALSE
       THEN LET same == OutputsOf(bf.name, InputBatch)
            IN  /\ downloads' = downloads \o same
                /\ produced' = produced \o same
                /\ fileIdx' = fileIdx + 1
                /\ completedFiles' = completedFiles + 1
                /\ bpc' = "loop"
                /\ UNCHANGED <<routeVars, searchedStale>>
       ELSE /\ bpc' = "routing"
            /\ pc' = "search"
            /\ files' = InputBatch
            /\ yielded' = 0
            /\ requests' = 0
            /\ path' = <<>>
            /\ attemptFiles' = <<>>
            /\ i' = 0
            /\ supportedFormats' = None
            /\ result' = None
            /\ attempts' = <<>>
            /\ calls' = <<>>
            /\ searchedStale' = (\/ searchedStale
                                 \/ graphCatalog # supportedFormatCache
                                 \/ graphMode # simpleMode)
            /\ UNCHANGED <<searchSeq, fileIdx, completedFiles, downloads, produced>>
    /\ UNCHANGED <<batchFiles, conversionCancelled, cancelledAt, allOutputFiles, raised,
                   totalFiles, begun, handlerVars, lifeVars, graphCatalog, graphMode,
                   uiVars>>

\* await inputFile.arrayBuffer() has settled: a file whose output media type
\* is the input's is downloaded as it is; any other goes to
\* tryConvertByTraversing, whose searchPath call starts on the graph as it is.
FileRead ==
    /\ bpc = "reading"
    /\ IF bf.kind = "sameMime"
       THEN LET same == OutputsOf(bf.name, InputBatch)
            IN  /\ downloads' = downloads \o same
                /\ produced' = produced \o same
                /\ fileIdx' = fileIdx + 1
                /\ completedFiles' = completedFiles + 1
                /\ bpc' = "loop"
                /\ UNCHANGED <<routeVars, searchedStale>>
       ELSE /\ bpc' = "routing"
            /\ pc' = "search"
            /\ files' = InputBatch
            /\ yielded' = 0
            /\ requests' = 0
            /\ path' = <<>>
            /\ attemptFiles' = <<>>
            /\ i' = 0
            /\ supportedFormats' = None
            /\ result' = None
            /\ attempts' = <<>>
            /\ calls' = <<>>
            /\ searchedStale' = (\/ searchedStale
                                 \/ graphCatalog # supportedFormatCache
                                 \/ graphMode # simpleMode)
            /\ UNCHANGED <<searchSeq, fileIdx, completedFiles, downloads, produced>>
    /\ UNCHANGED <<batchFiles, conversionCancelled, cancelledAt, allOutputFiles, raised,
                   totalFiles, begun, handlerVars, lifeVars, graphCatalog, graphMode,
                   uiVars>>

\* tryConvertByTraversing has returned: a null output is a failed file, any
\* other output is pushed to allOutputFiles; the loop goes to the next file.
FileDone ==
    /\ bpc = "routing"
    /\ pc = "done"
    /\ LET out == IF result = None THEN <<>> ELSE OutputsOf(bf.name, result[1].files)
       IN  /\ allOutputFiles' = allOutputFiles \o out
           /\ produced' = produced \o out
    /\ raised' = raised \cup {calls[c].handler : c \in {n \in 1..Len(calls) :
                                  calls[n].op = "init" /\ calls[n].outcome = "throws"}}
    /\ pc' = "idle"
    /\ fileIdx' = fileIdx + 1
    /\ completedFiles' = completedFiles + 1
    /\ bpc' = "loop"
    /\ UNCHANGED <<batchFiles, conversionCancelled, cancelledAt, downloads, totalFiles,
                   begun, handlerVars, searchSeq, yielded, requests, files, path,
                   attemptFiles, i, supportedFormats, result, attempts, calls, lifeVars,
                   graphVars, uiVars>>

\* Faulty variant: a cancelled run ends without handing anything over.
LoopExit_DropsOnCancel ==
    /\ bpc = "loop"
    /\ fileIdx > Len(batchFiles) \/ conversionCancelled
    /\ bpc' = IF conversionCancelled THEN "finished" ELSE "finalWait"
    /\ UNCHANGED <<batchFiles, fileIdx, conversionCancelled, cancelledAt, allOutputFiles,
                   downloads, produced, raised, totalFiles, completedFiles, begun,
                   batchFrame>>

\* The loop is left, by the break or at the end of batchFiles: a cancelled
\* run downloads allOutputFiles and returns, any other waits 200 ms.
LoopExit ==
    /\ bpc = "loop"
    /\ fileIdx > Len(batchFiles) \/ conversionCancelled
    /\ IF conversionCancelled
       THEN /\ downloads' = downloads \o allOutputFiles
            /\ bpc' = "finished"
       ELSE /\ bpc' = "finalWait"
            /\ UNCHANGED downloads
    /\ UNCHANGED <<batchFiles, fileIdx, conversionCancelled, cancelledAt, allOutputFiles,
                   produced, raised, totalFiles, completedFiles, begun, batchFrame>>

\* After the wait every file of allOutputFiles is downloaded, on its own or
\* inside one ZIP archive.
BatchFinish ==
    /\ bpc = "finalWait"
    /\ downloads' = downloads \o allOutputFiles
    /\ bpc' = "finished"
    /\ UNCHANGED <<batchFiles, fileIdx, conversionCancelled, cancelledAt, allOutputFiles,
                   produced, raised, totalFiles, completedFiles, begun, batchFrame>>

\* Every handler on a path of the graph has a cache entry here, so the
\* missing-formats throw of attemptConvertPath (NoFormats) has no run in a batch.
BatchNext ==
    \/ BatchStart
    \/ FramesElapsed
    \/ Cancel
    \/ FileBegin
    \/ FileRead
    \/ SearchNext
    \/ SearchExhausted
    \/ HopStart
    \/ AttemptSucceed
    \/ HandlerInit
    \/ ConvertCall
    \/ ConvertReturn
    \/ FileDone
    \/ LoopExit
    \/ BatchFinish

BatchSpec == BatchInit /\ [][BatchNext]_vars

----------------------------------------------------------------------------
(* The batch run with files dropped or pasted onto the window while it is
   under way. *)

\* Most files added to the batch during one run.
MaxDrops == 1

\* The names a dropped file can have: before, between and after the names of
\* the files selected before the run.
DropNames == {1, 3, 5}

RECURSIVE InsertByName(_, _)
\* One step of the stable sort by name: f goes behind every file whose name
\* is not greater.
InsertByName(sorted, f) ==
    IF sorted = <<>> THEN <<f>>
    ELSE IF sorted[Len(sorted)].name <= f.name THEN Append(sorted, f)
    ELSE Append(InsertByName(SubSeq(sorted, 1, Len(sorted) - 1), f), sorted[Len(sorted)])

RECURSIVE SortByName(_)
\* batchFiles.sort((a, b) => a.file.name === b.file.name ? 0 : (a.file.name < b.file.name ? -1 : 1))
SortByName(list) ==
    IF list = <<>> THEN <<>>
    ELSE InsertByName(SortByName(SubSeq(list, 1, Len(list) - 1)), list[Len(list)])

\* fileSelectHandler on a drop or paste event while the run is waiting: the
\* new file is pushed to batchFiles and batchFiles is sorted by name.
FilesDropped ==
    /\ AtAwait
    /\ Cardinality({k \in 1..Len(batchFiles) : batchFiles[k].added}) < MaxDrops
    /\ \E n \in DropNames : \E k \in FileKinds :
         batchFiles' = SortByName(Append(batchFiles, BatchFile(n, k, TRUE)))
    /\ UNCHANGED <<bpc, fileIdx, conversionCancelled, cancelledAt, allOutputFiles,
                   downloads, produced, raised, totalFiles, completedFiles, begun,
                   batchFrame>>

\* As BatchInit, with the one-hop path through H3 as the only candidate of
\* every file and a cache.json of the current build.
DropInit ==
    /\ BatchInit
    /\ searchSeq = <<(<<from, Node(FmtC, "H3")>>)>>
    /\ supportedFormatCache = [h \in Handlers |-> Decl[h]]
    /\ ~conversionCancelled

DropNext ==
    \/ BatchNext
    \/ FilesDropped

DropSpec == DropInit /\ [][DropNext]_vars

----------------------------------------------------------------------------
(* The capability graph and the path search behind
   window.traversionGraph.searchPath, and routing runs over the paths it
   yields on a range of catalogs. *)

\* Ceiling on the hops of a yielded path.
MaxHops == 3

\* Graph identity of a conversion option: (media type, format code) in simple
\* mode, (media type, format code, handler name) in advanced mode.
NodeKey(n, simple) ==
    IF simple THEN <<n.format.mime, n.format.format>>
    ELSE <<n.format.mime, n.format.format, n.handler>>

\* Handler h takes the format of node x as input: it declares it as an
\* acceptable input, or it accepts any input.
Accepts(options, h, x) ==
    \/ h \in supportAnyInput
    \/ \E n \in 1..Len(options) :
          /\ options[n].handler = h
          /\ options[n].format.from
          /\ options[n].format.mime = x.format.mime
          /\ options[n].format.format = x.format.format

\* Option n is the target of an edge out of node x: a producible output of a
\* handler that takes x's format, not x itself, and the first option of that
\* handler on its node.
IsEdge(options, x, simple, n) ==
    LET o == options[n]
    IN  /\ o.format.to
        /\ Accepts(options, o.handler, x)
        /\ NodeKey(o, simple) # NodeKey(x, simple)
        /\ \A m \in 1..(n - 1) :
              ~(/\ options[m].handler = o.handler
                /\ options[m].format.to
                /\ NodeKey(options[m], simple) = NodeKey(o, simple))

RECURSIVE EdgeTargets(_, _, _, _)
\* The edges out of x, in handler discovery order.
EdgeTargets(options, x, simple, n) ==
    IF n > Len(options) THEN <<>>
    ELSE (IF IsEdge(options, x, simple, n) THEN <<options[n]>> ELSE <<>>)
         \o EdgeTargets(options, x, simple, n + 1)

\* Node t is on path p.
OnPath(p, t, simple) == \E n \in 1..Len(p) : NodeKey(p[n], simple) = NodeKey(t, simple)

RECURSIVE ExtendOne_Revisits(_, _, _, _)
\* Faulty variant: a path is extended to nodes it has already visited.
ExtendOne_Revisits(p, targets, simple, n) ==
    IF n > Len(targets) THEN <<>>
    ELSE <<Append(p, targets[n])>> \o ExtendOne_Revisits(p, targets, simple, n + 1)

RECURSIVE ExtendOne(_, _, _, _)
\* Path p extended by one hop along each edge to a node it has not visited.
ExtendOne(p, targets, simple, n) ==
    IF n > Len(targets) THEN <<>>
    ELSE (IF OnPath(p, targets[n], simple) THEN <<>> ELSE <<Append(p, targets[n])>>)
         \o ExtendOne(p, targets, simple, n + 1)

RECURSIVE ExtendAll(_, _, _, _)
\* Every path of the list extended by one hop, in the order of the list.
ExtendAll(options, partials, simple, n) ==
    IF n > Len(partials) THEN <<>>
    ELSE ExtendOne(partials[n],
                   EdgeTargets(options, partials[n][Len(partials[n])], simple, 1),
                   simple, 1)
         \o ExtendAll(options, partials, simple, n + 1)

\* The paths of the list that end on the goal node / that do not.
Arrived(paths, goal, simple) ==
    SelectSeq(paths, LAMBDA p : NodeKey(p[Len(p)], simple) = NodeKey(goal, simple))
Open(paths, goal, simple) ==
    SelectSeq(paths, LAMBDA p : NodeKey(p[Len(p)], simple) # NodeKey(goal, simple))

RECURSIVE Levels_DepthFirst(_, _, _, _, _)
\* Faulty variant: the paths through the first open path are yielded before
\* the shorter paths found beside it.
Levels_DepthFirst(options, partials, goal, simple, hops) ==
    IF partials = <<>> \/ hops > MaxHops THEN <<>>
    ELSE LET next == ExtendAll(options, partials, simple, 1)
         IN  Levels_DepthFirst(options, Open(next, goal, simple), goal, simple, hops + 1)
             \o Arrived(next, goal, simple)

RECURSIVE Levels(_, _, _, _, _)
\* Breadth-first enumeration: the paths of `hops` hops that arrive, then the
\* longer ones through the paths that are still open.
Levels(options, partials, goal, simple, hops) ==
    IF partials = <<>> \/ hops > MaxHops THEN <<>>
    ELSE LET next == ExtendAll(options, partials, simple, 1)
         IN  Arrived(next, goal, simple)
             \o Levels(options, Open(next, goal, simple), goal, simple, hops + 1)

\* searchPath(from, to, simpleMode) on the graph built from the option list:
\* the paths it yields, in order.
searchPath(options, start, goal, simple) == Levels(options, <<(<<start>>)>>, goal, simple, 1)

\* Formats the catalogs below add to those of the routing catalog.
FmtAout == Fmt("m/a", "a", "a", FALSE, TRUE)
FmtCin == Fmt("m/c", "c", "c", TRUE, FALSE)

\* What the cache can hold for each handler (<<>>: no entry).  H1: a -> b, or
\* between a and b both ways.  H2: b -> c, or b -> c and b -> a.  H3: any
\* input -> c.  H4: a -> c, or c -> a.
SearchEntries ==
    [h \in Handlers |->
        CASE h = "H1" -> {<<FmtA, FmtB>>, <<FmtA, FmtBin, FmtB, FmtAout>>}
          [] h = "H2" -> {Decl[h], <<FmtBin, FmtC, FmtC2, FmtAout>>}
          [] h = "H3" -> {<<>>, Decl[h]}
          [] h = "H4" -> {<<>>, Decl[h], <<FmtCin, FmtAout>>}]

SearchCatalogs ==
    {[h \in {x \in Handlers : e[x] # <<>>} |-> e[h]] :
        e \in {f \in [Handlers -> UNION {SearchEntries[h] : h \in Handlers}] :
                  \A h \in Handlers : f[h] \in SearchEntries[h]}}

\* tryConvertByTraversing(files, from, to) is entered, in either mode, on a
\* catalog whose handlers are all initialised.
SearchInit ==
    /\ supportedFormatCache \in SearchCatalogs
    /\ ready = [h \in Handlers |-> TRUE]
    /\ handlerFormats = supportedFormatCache
    /\ allOptions = OptionList(supportedFormatCache, 1)
    /\ simpleMode \in BOOLEAN
    /\ searchSeq = searchPath(allOptions, from, to, simpleMode)
    /\ yielded = 0
    /\ requests = 0
    /\ files = InputBatch
    /\ pc = "search"
    /\ path = <<>>
    /\ attemptFiles = <<>>
    /\ i = 0
    /\ supportedFormats = None
    /\ result = None
    /\ attempts = <<>>
    /\ calls = <<>>
    /\ builds = <<>>
    /\ instance = InstancesOf(ready)
    /\ initCalls = [h \in Handlers |-> 0]
    /\ instInits = [h \in Handlers |-> 0]
    /\ succeeded = {}
    /\ exported = None
    /\ GraphIdle
    /\ BatchIdle
    /\ UiIdle

\* The handlers are ready and cached: no init() and no missing-formats throw.
SearchRunNext ==
    \/ SearchNext
    \/ SearchExhausted
    \/ HopStart
    \/ AttemptSucceed
    \/ ConvertCall
    \/ ConvertReturn

SearchSpec == SearchInit /\ [][SearchRunNext]_vars

----------------------------------------------------------------------------
(* Reading the histories *)

DoConvertCalls == {k \in 1..Len(calls) : calls[k].op = "doConvert"}
InitCalls == {k \in 1..Len(calls) : calls[k].op = "init"}

\* Call k is the last handler operation of its attempt.
LastOfAttempt(k) == \A j \in (k + 1)..Len(calls) : calls[j].attempt # calls[k].attempt

\* Some attempt has returned a result.
Succeeded == \E k \in 1..Len(attempts) : attempts[k].ret = "ok"

\* Path p is candidate q, up to the substitution of its final node.
SameCandidate(p, q) ==
    /\ Len(p) = Len(q)
    /\ \A n \in 1..(Len(p) - 1) : p[n] = q[n]
    /\ p[Len(p)].handler = q[Len(q)].handler

----------------------------------------------------------------------------
(* C1: tryConvertByTraversing attempts the candidates in exactly the order
   searchPath yields them and returns the result of the first attempt that
   succeeds; after that success it asks the search for no further candidate
   and invokes no further handler init or conversion. *)
C1_InOrder ==
    /\ Len(attempts) = yielded
    /\ \A k \in 1..Len(attempts) : SameCandidate(attempts[k].path, searchSeq[k])

C1_FirstSuccess ==
    \A k \in 1..Len(attempts) :
        attempts[k].ret = "ok" =>
            /\ k = Len(attempts)
            /\ \A j \in 1..(k - 1) : attempts[j].ret = "null"
            /\ pc = "done"
            /\ result # None
            /\ result[1].path = attempts[k].path

C1_FirstSuccessReturned ==
    [](C1_InOrder /\ C1_FirstSuccess)
    /\ [][Succeeded => UNCHANGED <<requests, yielded, attempts, calls>>]_vars

\* The first of two candidates succeeded and the second was never asked for.
C1_Witness ==
    /\ pc = "done"
    /\ result # None
    /\ Len(searchSeq) = 2
    /\ requests = 1
    /\ Len(calls) > 0

(* C2: with a finite candidate sequence and handler operations that return
   or throw, tryConvertByTraversing terminates; it returns null exactly when
   the sequence is empty or every candidate attempt returned null, and
   otherwise returns {files, path} of a successful attempt. *)
AllAttemptsNull ==
    /\ Len(attempts) = Len(searchSeq)
    /\ \A k \in 1..Len(attempts) : attempts[k].ret = "null"

C2_Result ==
    pc = "done" =>
        /\ (result = None) <=> (searchSeq = <<>> \/ AllAttemptsNull)
        /\ result # None =>
              \E k \in 1..Len(attempts) :
                  /\ attempts[k].ret = "ok"
                  /\ result[1].path = attempts[k].path
                  /\ \/ Len(attempts[k].path) = 1 /\ result[1].files = files
                     \/ \E c \in DoConvertCalls :
                            /\ calls[c].attempt = k
                            /\ calls[c].hop = Len(attempts[k].path) - 2
                            /\ result[1].files = calls[c].out

\* Steps an attempt on path p takes at most: four per hop (loop top, init,
\* conversion call, conversion return) and the return.
AttemptSteps(p) == 4 * (Len(p) - 1) + 1

RECURSIVE SearchSteps(_)
\* Steps the candidates after the k-th take at most, with the final request
\* that finds the search exhausted.
SearchSteps(k) ==
    IF k >= Len(searchSeq) THEN 1
    ELSE 1 + AttemptSteps(searchSeq[k + 1]) + SearchSteps(k + 1)

\* An upper bound on the steps the run still takes.
StepsLeft ==
    CASE pc = "done" -> 0
      [] pc = "search" -> SearchSteps(yielded)
      [] OTHER ->
           SearchSteps(yielded) + 4 * (Len(path) - 1 - i) + 1
             - (CASE pc = "hop" -> 0 [] pc = "init" -> 1 [] pc = "find" -> 2
                  [] pc = "converting" -> 3)

\* Termination: until it has returned the run can always take a step, and
\* every step lowers the bound StepsLeft, which never drops below zero.
C2_TerminatesWithResult ==
    /\ [](StepsLeft >= 0 /\ (pc # "done" => ENABLED Next))
    /\ [][StepsLeft' < StepsLeft]_vars
    /\ []C2_Result

\* Both candidates were attempted, both returned null, and null was returned.
C2_Witness ==
    /\ pc = "done"
    /\ result = None
    /\ Len(attempts) = 2
    /\ AllAttemptsNull

(* C3: if a hop's conversion returns a batch in which at least one file has
   a zero-length payload, attemptConvertPath returns null for that attempt,
   exactly as when the conversion throws: in both cases the attempt ends at
   that hop with null. *)
HopRejected(k) == calls[k].outcome = "throws"
HopEmptyPayload(k) ==
    /\ calls[k].outcome \notin {"pending", "throws"}
    /\ \E n \in 1..Len(calls[k].out) : calls[k].out[n].bytes = <<>>

C3_EmptyPayloadIsFailure ==
    \A k \in DoConvertCalls :
        (HopRejected(k) \/ HopEmptyPayload(k)) =>
            /\ attempts[calls[k].attempt].ret = "null"
            /\ LastOfAttempt(k)
            /\ (calls[k].attempt = Len(attempts) => pc \in {"search", "done"})

\* The second hop of a path handed back a batch with an empty file beside a
\* non-empty one.
C3_Witness ==
    \E k \in DoConvertCalls :
        /\ HopEmptyPayload(k)
        /\ calls[k].hop = 1
        /\ calls[k].out[1].bytes # <<>>
        /\ attempts[calls[k].attempt].ret = "null"

(* C4: every candidate attempt starts from the caller's original input
   batch, however many hops earlier failed attempts completed; the files of
   a successful result are exactly the output of the last hop of the
   successful path and hold nothing an earlier aborted attempt produced. *)
C4_FreshStart ==
    /\ files = InputBatch
    /\ \A k \in DoConvertCalls : calls[k].hop = 0 => calls[k].files = InputBatch
    /\ pc = "hop" /\ i = 0 => attemptFiles = InputBatch

C4_ResultIsLastHop ==
    (pc = "done" /\ result # None /\ Len(result[1].path) > 1) =>
        /\ Len(calls) \in DoConvertCalls
        /\ calls[Len(calls)].attempt = Len(attempts)
        /\ calls[Len(calls)].hop = Len(result[1].path) - 2
        /\ result[1].files = calls[Len(calls)].out
        /\ \A n \in 1..Len(result[1].files) :
              \A b \in 1..Len(result[1].files[n].bytes) :
                  /\ result[1].files[n].bytes[b] \in DoConvertCalls
                  /\ calls[result[1].files[n].bytes[b]].attempt = Len(attempts)

C4_AttemptsIsolated == C4_FreshStart /\ C4_ResultIsLastHop

\* A two-hop path succeeded after an earlier attempt had completed a hop and
\* then failed.
C4_Witness ==
    /\ pc = "done"
    /\ result # None
    /\ Len(attempts) = 2
    /\ Len(result[1].path) = 3
    /\ \E k \in DoConvertCalls :
          /\ calls[k].attempt = 1
          /\ calls[k].hop = 0
          /\ calls[k].outcome = "oneFile"

(* C5: an attempt on a path that has a hop whose handler's doConvert always
   fails returns null, and the caller's input batch is the same after the
   attempt as before it. *)
ThroughFailingHandler(p) == \E n \in 2..Len(p) : p[n].handler \in AlwaysFails

C5_FailingHandlerFailsPath ==
    /\ files = InputBatch
    /\ \A k \in 1..Len(attempts) :
          ThroughFailingHandler(attempts[k].path) =>
              /\ attempts[k].ret # "ok"
              /\ (k < Len(attempts) \/ pc \in {"search", "done"}) => attempts[k].ret = "null"

\* The always-failing handler's conversion was invoked and the attempt
\* returned null.
C5_Witness ==
    \E k \in DoConvertCalls :
        /\ calls[k].handler \in AlwaysFails
        /\ calls[k].outcome # "pending"
        /\ attempts[calls[k].attempt].ret = "null"
        /\ files = InputBatch

(* C6: for every way a hop can fail (init throws, no cached formats, no
   matching input descriptor, doConvert throws or rejects, empty output
   payload) attemptConvertPath resolves to null, so the driving loop goes on
   to the next candidate.  Stated over the handler operations invoked: an
   attempt in which an init threw, or a conversion was given no input
   descriptor, threw, or handed back an empty payload, does not succeed. *)
HopWithoutDescriptor(k) == calls[k].op = "doConvert" /\ calls[k].inputFormat = None

C6_EveryHopFailureIsNull ==
    \A k \in 1..Len(calls) :
        (HopRejected(k) \/ HopWithoutDescriptor(k)
            \/ (k \in DoConvertCalls /\ HopEmptyPayload(k))) =>
            attempts[calls[k].attempt].ret # "ok"

(* C7: when a hop's handler is not ready and its init() throws, the attempt
   returns null without invoking doConvert for that hop or any later hop. *)
InitThrew(k) == k \in InitCalls /\ calls[k].outcome = "throws"

C7_InitFailureEndsAttempt ==
    \A k \in InitCalls :
        InitThrew(k) =>
            /\ attempts[calls[k].attempt].ret = "null"
            /\ LastOfAttempt(k)

\* The attempt has just returned null because the init() of call k threw.
JustFailedOnInit ==
    /\ pc = "search"
    /\ Len(calls) > 0
    /\ InitThrew(Len(calls))
    /\ calls[Len(calls)].attempt = Len(attempts)

(* C7 as stated: ... and neither the supported-format cache nor the option
   list is changed by the failed attempt. *)
C7_Original ==
    /\ C7_InitFailureEndsAttempt
    /\ JustFailedOnInit =>
          /\ supportedFormatCache = attempts[Len(attempts)].cache
          /\ allOptions = attempts[Len(attempts)].options

\* Handlers whose init() succeeded in an earlier hop of attempt a.
InitialisedIn(a) ==
    {calls[k].handler : k \in {j \in InitCalls : calls[j].attempt = a /\ calls[j].outcome = "ok"}}

(* C7 amended: ... and the failing hop changes neither the supported-format
   cache nor the option list; the cache differs from the one the attempt was
   entered with only in the entries of handlers that an earlier hop of the
   same attempt initialised successfully. *)
C7_Amended ==
    /\ C7_InitFailureEndsAttempt
    /\ JustFailedOnInit =>
          /\ supportedFormatCache = calls[Len(calls)].cache
          /\ allOptions = attempts[Len(attempts)].options
          /\ \A h \in DOMAIN supportedFormatCache :
                CacheGet(attempts[Len(attempts)].cache, h) # Some(supportedFormatCache[h])
                    => h \in InitialisedIn(Len(attempts))

\* The init() of the second hop's handler threw after the first hop had been
\* converted.
C7_Witness ==
    /\ JustFailedOnInit
    /\ calls[Len(calls)].hop = 1
    /\ \E k \in DoConvertCalls : calls[k].attempt = Len(attempts) /\ calls[k].hop = 0

(* C8: if the hop handler's cached formats hold no input-capable descriptor
   matching the previous node's format, the attempt is aborted at that hop:
   the conversion is not invoked (in particular not with an undefined input
   descriptor) and attemptConvertPath returns null. *)
C8_NoCallWithoutDescriptor ==
    \A k \in DoConvertCalls : calls[k].inputFormat # None

(* C9: if after the optional init the cache has no entry for the hop's
   handler and init supplied no formats, the attempt returns null and
   doConvert is not invoked for that hop, whether or not the handler reports
   itself ready. *)
C9_NoCachedFormatsEndsAttempt ==
    [][(pc = "find" /\ HopHandler \notin DOMAIN supportedFormatCache) =>
            /\ pc' = "search"
            /\ calls' = calls
            /\ attempts' = SetLastRet("null")]_vars

\* A first attempt through a ready handler with no cache entry and a second
\* through a handler whose init() succeeded without supplying formats both
\* returned null, and no conversion was invoked.
C9_Witness ==
    /\ pc = "search"
    /\ Len(attempts) = 2
    /\ AllAttemptsNull
    /\ Len(calls) = 1
    /\ calls[1].op = "init"
    /\ calls[1].outcome = "okNoFormats"
    /\ calls[1].attempt = 2
    /\ ready[attempts[1].path[2].handler]
    /\ attempts[1].path[2].handler \notin DOMAIN supportedFormatCache
    /\ attempts[2].path[2].handler \notin DOMAIN supportedFormatCache

(* C10: whenever attemptConvertPath invokes a hop's doConvert, the input
   descriptor it passes is an entry of that handler's cached format list
   that is flagged input-capable and has the same media type and the same
   format code as the previous node of the path, and the output descriptor
   is the format of the hop's own path node.  Stated for the calls that are
   given a descriptor at all. *)
C10_DescriptorMatchesPreviousNode ==
    \A k \in DoConvertCalls :
        LET p == attempts[calls[k].attempt].path
            prev == p[calls[k].hop + 1].format
        IN  /\ calls[k].outputFormat = Some(p[calls[k].hop + 2].format)
            /\ calls[k].inputFormat # None =>
                  LET d == calls[k].inputFormat[1]
                  IN  /\ calls[k].handler \in DOMAIN calls[k].cache
                      /\ \E n \in 1..Len(calls[k].cache[calls[k].handler]) :
                            calls[k].cache[calls[k].handler][n] = d
                      /\ d.from
                      /\ d.mime = prev.mime
                      /\ d.format = prev.format

----------------------------------------------------------------------------
(* Handler lifecycle and catalog builds *)

\* The builds waiting for an init() call on handler h to settle.
WaitingOn(h) ==
    {b \in 1..Len(builds) : /\ builds[b].phase \in {"importing", "instInit", "copied"}
                            /\ handlers[builds[b].k] = h}

(* C11: over any sequence of catalog builds, path attempts and merge
   conversions, init() is invoked at most once on each handler whose init()
   has succeeded; afterwards its formats come from the cache. *)
C11_InitAtMostOnce ==
    \A h \in succeeded : initCalls[h] <= 1

(* C12: when two requests for the same not-yet-initialised handler overlap
   (two catalog builds waiting for its init() at the same time), the handler
   module is constructed and initialised exactly once. *)
C12_OneInstanceOneInit ==
    \A h \in Lazy :
        /\ instance[h].id <= 1
        /\ Cardinality(WaitingOn(h)) >= 2 => instInits[h] <= 1

(* C13: a handler's entry in the supported-format cache is written once and
   only read thereafter: an entry that is there when a path attempt is
   entered (written by an earlier init() or seeded from a snapshot) is not
   written again by this or a later attempt. *)
C13_EntryNeverRewritten ==
    \A k \in 1..Len(attempts) : \A h \in DOMAIN attempts[k].cache :
        supportedFormatCache[h] = attempts[k].cache[h]

RECURSIVE OptionsOfRange(_, _, _)
\* The options of the handlers at registry positions a..b, in order.
OptionsOfRange(cache, a, b) ==
    IF a > b THEN <<>>
    ELSE OptionsFrom(cache, handlers[a], 1) \o OptionsOfRange(cache, a + 1, b)

\* The step in which build b's init() call on a handler throws.
InitThrowsIn(b) == b <= Len(builds') /\ builds'[b].threw # builds[b].threw

\* Build b takes a step that brings it to its end.
Completes(b) ==
    b <= Len(builds') /\ builds[b].phase # "done" /\ builds'[b].phase = "done"

C15_ThrowIsSkipped ==
    \A b \in 1..Len(builds) :
        InitThrowsIn(b) =>
            LET h == handlers[builds[b].k]
            IN  /\ supportedFormatCache' = supportedFormatCache
                /\ builds'[b].k > builds[b].k
                /\ allOptions' = allOptions \o
                       OptionsOfRange(supportedFormatCache, builds[b].k + 1, builds'[b].k - 1)
                /\ \A n \in (Len(allOptions) + 1)..Len(allOptions') :
                       allOptions'[n].handler # h
                /\ builds'[b].phase = "done" <=> builds'[b].k > Len(handlers)

C15_CompletesWithGraph ==
    \A b \in 1..Len(builds) :
        Completes(b) =>
            /\ graphCatalog' = supportedFormatCache'
            /\ graphMode' = simpleMode'
            /\ builds'[b].options = allOptions'

\* A build that has not ended can go on, and has passed every handler whose
\* init() threw in it.
C15_BuildGoesOn ==
    \A b \in 1..Len(builds) :
        /\ builds[b].phase # "done" => ENABLED (BuildImportDone \/ BuildInitReturn)
        /\ \A h \in builds[b].threw :
              \E n \in 1..(builds[b].k - 1) : handlers[n] = h

(* C15: in buildOptionList, if a handler's init() throws, that handler
   contributes no options and gets no cache entry in this build, the options
   of the handlers after it are still added, the graph is still initialised
   and the build completes normally. *)
C15_InitFailureSkipsHandler ==
    /\ [][C15_ThrowIsSkipped /\ C15_CompletesWithGraph]_vars
    /\ []C15_BuildGoesOn

\* The startup build ended after the init() of H2 threw in it: H2 has no cache
\* entry and no option, H3 and H4 after it are listed, the graph is built.
C15_Witness ==
    /\ exported = None
    /\ Len(builds) = 1
    /\ builds[1].phase = "done"
    /\ builds[1].threw = {"H2"}
    /\ "H2" \notin DOMAIN supportedFormatCache
    /\ allOptions = OptionList(supportedFormatCache, 1)
    /\ \A n \in 1..Len(allOptions) : allOptions[n].handler # "H2"
    /\ \E n \in 1..Len(allOptions) : allOptions[n].handler = "H4"
    /\ graphCatalog = supportedFormatCache

RECURSIVE PairsFrom(_, _, _)
PairsFrom(cache, h, k) ==
    IF h \notin DOMAIN cache \/ k > Len(cache[h]) THEN <<>>
    ELSE <<Node(cache[h][k], h)>> \o PairsFrom(cache, h, k + 1)

RECURSIVE EveryPair(_, _)
\* One (format, handler) pair for every format of every handler with a cache
\* entry, by registration order and then by the order of the formats.
EveryPair(cache, n) ==
    IF n > Len(handlers) THEN <<>>
    ELSE PairsFrom(cache, handlers[n], 1) \o EveryPair(cache, n + 1)

(* C16: after a buildOptionList run completes, the option list holds exactly
   one entry for every (handler, format) pair of every handler that has
   cached formats, none missing and none duplicated, ordered by handler
   registration order and then by declaration order. *)
C16_ListIsEveryPairOnce ==
    \A b \in 1..Len(builds) :
        builds[b].phase = "done" => builds[b].options = EveryPair(builds[b].cache, 1)

(* C17: exporting the cache with printSupportedFormatCache and seeding a
   fresh process from the export makes buildOptionList produce the same
   option list as the build that produced the export, calling init() on no
   handler that has an entry in the export.  Stated for the runs in which the
   handlers without an entry in the export supply no formats in the fresh
   process either. *)
C17_SameListAfterReseed ==
    (exported # None /\ Len(builds) = 1 /\ builds[1].phase = "done") =>
        /\ builds[1].inits \cap DOMAIN exported[1].cache = {}
        /\ DOMAIN builds[1].cache = DOMAIN exported[1].cache =>
               builds[1].options = exported[1].options

----------------------------------------------------------------------------
(* The batch run *)

(* C14: once a handler's init() has raised, the handler is Failed: until a
   catalog rebuild is requested, init() is not invoked on it again and no hop
   goes through it.  In a batch run, where no rebuild is requested: no handler
   operation of the file being routed is on a handler whose init() raised for
   an earlier file. *)
C14_FailedStaysOut ==
    bpc = "routing" => \A k \in 1..Len(calls) : calls[k].handler \notin raised

(* C18: whenever the supported-format cache gains or changes an entry or
   simpleMode is toggled, traversionGraph.init() runs before the next
   searchPath call: no search starts on a graph built from an older catalog
   or mode. *)
C18_NoSearchOnOldGraph == ~searchedStale

\* A file is being read or routed after Cancel: it is the file that was in
\* flight at the click.
C19_NoOtherFileBegins ==
    (conversionCancelled /\ bpc \in {"reading", "routing"}) =>
        cancelledAt # None /\ cancelledAt[1].file = fileIdx

\* A cancelled run that has ended has handed every output produced to downloadFile.
C19_AllDelivered ==
    (bpc = "finished" /\ cancelledAt # None) =>
        \A k \in 1..Len(produced) : \E d \in 1..Len(downloads) : downloads[d] = produced[k]

(* C19: after cancellation is requested during a batch run, no batch file
   other than the one in flight begins routing, and every output file already
   produced, the in-flight file's included if it succeeds, is delivered to
   the user. *)
C19_CancelStopsAndDelivers == C19_NoOtherFileBegins /\ C19_AllDelivered

\* Cancel came while the first of two files was routed; that file then
\* succeeded, its output was downloaded and the second file never began.
C19_Witness ==
    /\ bpc = "finished"
    /\ Len(batchFiles) = 2
    /\ \A k \in 1..2 : batchFiles[k].kind = "convert"
    /\ cancelledAt # None
    /\ cancelledAt[1].file = 1
    /\ cancelledAt[1].produced = 0
    /\ fileIdx = 2
    /\ produced # <<>>
    /\ downloads = produced

\* This step issues a handler conversion.
ConversionIssued ==
    /\ Len(calls') = Len(calls) + 1
    /\ calls'[Len(calls')].op = "doConvert"

(* C20: once cancellation is requested, the hop in flight is allowed to
   finish and after it no further handler conversion is issued, neither a
   later hop of the same path nor a hop of a fallback candidate path for the
   same file. *)
C20_Original == [][conversionCancelled => ~ConversionIssued]_vars

(* C20, as the code has it: a handler conversion issued after cancellation
   was requested belongs to the batch file that was in flight at the request
   (a later hop of its path or a hop of one of its fallback candidates); no
   conversion is issued for any other file. *)
C20_Amended ==
    [][(conversionCancelled /\ ConversionIssued) =>
          /\ bpc = "routing"
          /\ cancelledAt # None
          /\ cancelledAt[1].file = fileIdx]_vars

\* After a Cancel during the first hop's conversion, the second hop of the
\* same path and then a hop of the fallback candidate were issued.
C20_Witness ==
    /\ bpc = "routing"
    /\ conversionCancelled
    /\ cancelledAt # None
    /\ cancelledAt[1].file = fileIdx
    /\ cancelledAt[1].calls >= 1
    /\ calls[cancelledAt[1].calls].op = "doConvert"
    /\ calls[cancelledAt[1].calls].attempt = 1
    /\ calls[cancelledAt[1].calls].hop = 0
    /\ \E k \in (cancelledAt[1].calls + 1)..Len(calls) :
          calls[k].op = "doConvert" /\ calls[k].attempt = 1 /\ calls[k].hop = 1
    /\ \E k \in (cancelledAt[1].calls + 1)..Len(calls) :
          calls[k].op = "doConvert" /\ calls[k].attempt = 2

\* How many times the loop has bound bf to the file named n.
TimesBegun(n) == Cardinality({k \in 1..Len(begun) : begun[k].name = n})

(* C29: each file that is in the batch when a conversion run starts is
   processed exactly once in that run, and the completed-file count never
   exceeds the total taken at the start, also when files are added to the
   batch by a drop or paste event while the run is awaiting a conversion. *)
C29_EachFileOnce ==
    /\ completedFiles <= totalFiles
    /\ \A k \in 1..Len(batchFiles) :
          ~batchFiles[k].added => TimesBegun(batchFiles[k].name) <= 1
    /\ (bpc = "finished" /\ cancelledAt = None) =>
          \A k \in 1..Len(batchFiles) :
              ~batchFiles[k].added => TimesBegun(batchFiles[k].name) = 1

\* The handler conversions that have been called and have not returned.
InFlight == {k \in DoConvertCalls : calls[k].outcome = "pending"}

C21_OneInFlight ==
    /\ Cardinality(InFlight) <= 1
    /\ InFlight # {} => InFlight = {Len(calls)} /\ pc = "converting" /\ bpc = "routing"

\* A conversion of hop n + 1 was called after the conversion of hop n of the
\* same attempt had returned, with the batch that conversion returned.
C21_HopChain ==
    \A k \in DoConvertCalls :
        calls[k].hop >= 1 =>
            \E j \in DoConvertCalls :
                /\ j < k
                /\ calls[j].attempt = calls[k].attempt
                /\ calls[j].hop = calls[k].hop - 1
                /\ calls[j].outcome \notin {"pending", "throws"}
                /\ calls[k].files = calls[j].out

\* The loop is between two files, or reading one, only when the routing of
\* the previous file has returned.
C21_FilesInTurn ==
    bpc \in {"loop", "reading"} => pc = "idle" /\ InFlight = {}

(* C21: within a conversion run at most one handler conversion is in flight
   at any time: hop i+1 of a path starts only after hop i has returned and
   receives exactly hop i's output batch, and the routing of the next batch
   file starts only after the routing of the previous file has finished. *)
C21_OneConversionAtATime == C21_OneInFlight /\ C21_HopChain /\ C21_FilesInTurn

\* The second file of a batch is at the second hop of a path, called with what
\* the first hop returned, after the first file was converted.
C21_Witness ==
    /\ bpc = "routing"
    /\ fileIdx = 2
    /\ allOutputFiles # <<>>
    /\ pc = "converting"
    /\ calls[Len(calls)].hop = 1
    /\ calls[Len(calls)].files = calls[Len(calls) - 1].out
    /\ calls[Len(calls)].files # InputBatch

----------------------------------------------------------------------------
(* Candidate paths *)

(* C22: within one tryConvertByTraversing call no two attempts are made on
   identical paths, also after the final-hop substitution has been applied;
   each failure advances to a distinct next candidate. *)
C22_NoPathTwice ==
    \A j, k \in 1..Len(attempts) : j # k => attempts[j].path # attempts[k].path

\* Three candidates were attempted, one of them with its final node substituted.
C22_Witness ==
    /\ Len(attempts) >= 3
    /\ \E k \in 1..Len(attempts) : attempts[k].path # searchSeq[k]

(* C23: for every candidate searchPath yields, if its final hop uses the
   caller's requested handler, the path that is attempted, and returned on
   success, ends with exactly the caller's requested (handler, format)
   option; otherwise the path is attempted unchanged; no node other than the
   last is ever altered. *)
C23_FinalHopIsRequestedOption ==
    /\ \A k \in 1..Len(attempts) :
          LET p == attempts[k].path
              q == searchSeq[k]
          IN  /\ Len(p) = Len(q)
              /\ \A n \in 1..(Len(q) - 1) : p[n] = q[n]
              /\ q[Len(q)].handler = "H2" => p[Len(p)] = Node(FmtC2, "H2")
              /\ q[Len(q)].handler # "H2" => p[Len(p)] = q[Len(q)]
    /\ result # None => result[1].path = attempts[Len(attempts)].path

\* A candidate ending on another format of the requested handler was
\* attempted and returned with the requested option as its final node.
C23_Witness ==
    /\ result # None
    /\ result[1].path[Len(result[1].path)] = to
    /\ searchSeq[Len(attempts)][Len(searchSeq[Len(attempts)])] # to
    /\ Len(attempts) = 2
    /\ attempts[1].path = searchSeq[1]

\* The graph has an edge from the start node to the goal node.
DirectEdge ==
    \E n \in 1..Len(allOptions) :
        /\ IsEdge(allOptions, from, simpleMode, n)
        /\ NodeKey(allOptions[n], simpleMode) = NodeKey(to, simpleMode)

(* C24: searchPath yields candidate paths in non-decreasing hop count:
   whenever the graph has a direct one-hop edge from the start node to the
   goal node, a one-hop path is yielded before any path with two or more
   hops; and when the only route from A to C is A -> B via H1 then B -> C via
   H2, the first candidate is exactly [A, (H1, B), (H2, C)]. *)
C24_ShortestFirst ==
    /\ \A j, k \in 1..yielded : j < k => Len(searchSeq[j]) <= Len(searchSeq[k])
    /\ (DirectEdge /\ pc # "search") => yielded >= 1
    /\ (DirectEdge /\ yielded >= 1) => Len(searchSeq[1]) = 2
    /\ (DOMAIN supportedFormatCache = {"H1", "H2"} /\ yielded >= 1) =>
          searchSeq[1] = <<from, Node(FmtB, "H1"), Node(FmtC, "H2")>>

\* With a direct edge in the graph, the one-hop path was yielded and failed,
\* and a two-hop path was yielded after it.
C24_Witness ==
    /\ DirectEdge
    /\ yielded = 2
    /\ Len(searchSeq[1]) = 2
    /\ Len(searchSeq[2]) = 3
    /\ attempts[1].ret = "null"

(* C25: no path yielded by searchPath, for any graph, start node and goal
   node, visits the same graph node twice. *)
C25_NoNodeTwice ==
    \A k \in 1..yielded :
        \A m, n \in 1..Len(searchSeq[k]) :
            m # n => NodeKey(searchSeq[k][m], simpleMode) # NodeKey(searchSeq[k][n], simpleMode)

\* A two-hop path was yielded on a graph that has an edge from its middle
\* node back to the start node.
C25_Witness ==
    /\ yielded >= 1
    /\ Len(searchSeq[yielded]) = 3
    /\ \E n \in 1..Len(allOptions) :
          /\ IsEdge(allOptions, searchSeq[yielded][2], simpleMode, n)
          /\ NodeKey(allOptions[n], simpleMode) = NodeKey(from, simpleMode)

\* Call k ended its hop in failure: the operation threw, or the conversion
\* handed back a file without content.
HopFailed(k) == HopRejected(k) \/ (k \in DoConvertCalls /\ HopEmptyPayload(k))

\* Call j is a conversion of hop n of attempt a that handed on a usable batch.
PassedHop(j, a, n) ==
    /\ j \in DoConvertCalls
    /\ calls[j].attempt = a
    /\ calls[j].hop = n
    /\ calls[j].outcome \notin {"pending", "throws"}
    /\ ~HopEmptyPayload(j)

(* C26: within one attempt the hops of a path are executed strictly in path
   order, each hop's doConvert is invoked at most once, and after a hop fails
   (its init() throws, its cached formats are missing, doConvert() throws, or
   an output has an empty payload) no initialisation or conversion of any
   later hop of that path is performed. *)
C26_HopsInOrderOnce ==
    /\ \A j, k \in 1..Len(calls) :
          (j < k /\ calls[j].attempt = calls[k].attempt) =>
              /\ calls[j].hop <= calls[k].hop
              /\ (j \in DoConvertCalls /\ k \in DoConvertCalls) => calls[j].hop < calls[k].hop
              /\ ~HopFailed(j)
    /\ \A k \in 1..Len(calls) :
          /\ calls[k].handler = attempts[calls[k].attempt].path[calls[k].hop + 2].handler
          /\ calls[k].hop >= 1 =>
                \E j \in 1..(k - 1) : PassedHop(j, calls[k].attempt, calls[k].hop - 1)
    /\ \A a \in 1..Len(attempts) :
          attempts[a].ret = "null" =>
              ~\E k \in 1..Len(calls) : PassedHop(k, a, Len(attempts[a].path) - 2)

\* A two-hop path failed on its first hop and nothing of its second hop was
\* run; another two-hop path ran both hops, in order, and succeeded.
C26_Witness ==
    /\ \E k \in DoConvertCalls :
          /\ HopFailed(k)
          /\ calls[k].hop = 0
          /\ Len(attempts[calls[k].attempt].path) = 3
    /\ \E j, k \in DoConvertCalls :
          /\ j < k
          /\ calls[j].attempt = calls[k].attempt
          /\ attempts[calls[k].attempt].ret = "ok"

----------------------------------------------------------------------------
(* Lazy loading *)

\* The last handler operation issued (none: the empty record).
LastCall(cs) == IF cs = <<>> THEN [op |-> "none", handler |-> "none"] ELSE cs[Len(cs)]

(* C27: when the format cache is seeded with an entry for every lazy handler,
   building the option list at startup loads no lazy handler module and
   calls no init(); a lazy handler's module is fetched only when doConvert()
   is first called on it: the step that constructs a lazy handler's instance
   is the step that issues a doConvert() call on that handler. *)
C27_FetchedOnlyByDoConvert ==
    [][\A h \in Lazy :
          (instance[h].id = 0 /\ instance'[h].id # 0) =>
              /\ Len(calls') = Len(calls) + 1
              /\ LastCall(calls').op = "doConvert"
              /\ LastCall(calls').handler = h]_vars

\* The first half of C27 on the catalog builds: a process seeded with an
\* entry for every lazy handler constructs no instance and calls no init()
\* on a lazy handler in its startup build.
SeededStartupLoadsNothing ==
    (exported # None /\ Lazy \subseteq DOMAIN exported[1].cache) =>
        \A h \in Lazy : instance[h].id = 0 /\ initCalls[h] = 0 /\ ~ready[h]

SeededStartupDone ==
    /\ exported # None
    /\ Lazy \subseteq DOMAIN exported[1].cache
    /\ builds # <<>>
    /\ builds[1].phase = "done"

\* LazyHandler.doConvert calls this.init() itself only without a ready
\* instance; attemptConvertPath has always initialised the handler before.
ConvertFindsInstance ==
    pc = "converting" => ready[HopHandler] /\ instance[HopHandler].id # 0

\* The wrapper of lazy handler h shows the ready flag and the formats of its
\* instance, in the state given by the handler objects rdy, hf, ins.
Mirrors(h, rdy, hf, ins) ==
    /\ rdy[h] = ins[h].ready
    /\ IF ins[h].formats = None THEN h \notin DOMAIN hf
       ELSE h \in DOMAIN hf /\ hf[h] = ins[h].formats[1]

\* After a successful init() of every lazy handler's wrapper, the wrapper
\* mirrors its instance.
C28_MirrorsInstance ==
    \A h \in Lazy : h \in succeeded => Mirrors(h, ready, handlerFormats, instance)

\* An init() call on a lazy handler made after a successful one constructs no
\* instance, runs no init() on an instance and leaves the wrapper mirroring
\* its instance.
C28_SecondCall ==
    \A h \in Lazy :
        (h \in succeeded /\ initCalls'[h] = initCalls[h] + 1) =>
            /\ instance'[h].id = instance[h].id
            /\ instInits'[h] = instInits[h]
            /\ Mirrors(h, ready', handlerFormats', instance')

(* C28: LazyHandler.init() is idempotent in effect: calling it again after a
   successful call constructs no second instance, does not re-run the
   wrapped handler's init(), and leaves ready and supportedFormats equal to
   those of the wrapped instance; after any successful init() the wrapper's
   ready and supportedFormats mirror the wrapped instance. *)
C28_InitIdempotent == [](C28_MirrorsInstance) /\ [][C28_SecondCall]_vars

C28_SecondCallOnly == [][C28_SecondCall]_vars

----------------------------------------------------------------------------
(* Overlapping catalog builds *)

\* Two buildOptionList runs were started and both have finished.
BothBuildsDone ==
    /\ Len(builds) = 2
    /\ \A b \in 1..2 : builds[b].phase = "done"

(* C30: when two buildOptionList runs overlap (a mode toggle while an
   earlier build is awaiting a handler's init on a cache miss), the option
   list after both have finished equals the list a single build would
   produce over the cache the later one finished with: no (format, handler)
   pair is duplicated or missing. *)
C30_ListAsOfOneBuild ==
    BothBuildsDone =>
        /\ \E b \in 1..2 : allOptions = OptionList(builds[b].cache, 1)
        /\ \A m, n \in 1..Len(allOptions) : m # n => allOptions[m] # allOptions[n]

----------------------------------------------------------------------------
(* The PDF render quality preset of the pdftoimg handler *)

\* Most setPdfQualityPreset calls of one run, and the largest magnitude of
\* an argument.
MaxPresetCalls == 3
MaxPresetArg == 6

PresetArgs == (0 - MaxPresetArg)..MaxPresetArg

\* export const PDF_QUALITY_PRESETS (quality in hundredths).
PDF_QUALITY_PRESETS ==
    << [label |-> "Low", scale |-> 1, quality |-> 70, estimateKb |-> "~80 KB/page"],
       [label |-> "Medium", scale |-> 2, quality |-> 85, estimateKb |-> "~250 KB/page"],
       [label |-> "High", scale |-> 3, quality |-> 95, estimateKb |-> "~600 KB/page"],
       [label |-> "Max", scale |-> 4, quality |-> 100, estimateKb |-> "~1.2 MB/page"] >>

Min2(a, b) == IF a <= b THEN a ELSE b
Max2(a, b) == IF a >= b THEN a ELSE b

\* return PDF_QUALITY_PRESETS[activePresetIndex]: an element of the array
\* (indices from 0), or undefined.
getPdfQualityPreset ==
    IF activePresetIndex \in 0..(Len(PDF_QUALITY_PRESETS) - 1)
    THEN Some(PDF_QUALITY_PRESETS[activePresetIndex + 1])
    ELSE None

\* Faulty variant: the index is only kept from running past the last preset.
setPdfQualityPreset_NoFloor(index) == Min2(index, Len(PDF_QUALITY_PRESETS) - 1)

\* activePresetIndex = Math.max(0, Math.min(index, PDF_QUALITY_PRESETS.length - 1))
setPdfQualityPreset(index) == Max2(0, Min2(index, Len(PDF_QUALITY_PRESETS) - 1))

\* The loaded page with a complete cache.json, nothing selected.
PageIdle ==
    /\ supportedFormatCache = [h \in Handlers |-> Decl[h]]
    /\ ready = FreshReady
    /\ handlerFormats = FreshFormats
    /\ allOptions = OptionList(supportedFormatCache, 1)
    /\ RouteIdle
    /\ OuterIdle

PresetInit == PageIdle

\* One call of setPdfQualityPreset with an integer.
SetPreset ==
    /\ Len(presetCalls) < MaxPresetCalls
    /\ \E index \in PresetArgs :
         /\ activePresetIndex' = setPdfQualityPreset(index)
         /\ presetCalls' = Append(presetCalls, index)
    /\ UNCHANGED <<handlerVars, routeVars, lifeVars, graphVars, batchVars, mergeMode,
                   individualMode, inputSelected, outputSelected, convertEnabled, earlier>>

PresetNext == SetPreset

PresetSpec == PresetInit /\ [][PresetNext]_vars

(* C38: after any sequence of setPdfQualityPreset calls with any integers,
   the active preset index lies in 0..3 (an out-of-range index is clamped to
   the nearest bound) and getPdfQualityPreset returns one of the four defined
   presets; before any call it returns the preset at index 2. *)
C38_PresetInRange ==
    /\ activePresetIndex \in 0..3
    /\ getPdfQualityPreset # None
    /\ getPdfQualityPreset[1] \in {PDF_QUALITY_PRESETS[n] : n \in 1..4}
    /\ presetCalls = <<>> => getPdfQualityPreset[1].label = "High"
    /\ presetCalls # <<>> =>
          LET index == presetCalls[Len(presetCalls)]
          IN  /\ index < 0 => activePresetIndex = 0
              /\ index > 3 => activePresetIndex = 3
              /\ index \in 0..3 => activePresetIndex = index

\* An index below the range, then one above it: the last preset is active.
C38_Witness ==
    /\ Len(presetCalls) >= 2
    /\ presetCalls[1] < 0
    /\ presetCalls[Len(presetCalls)] > 3
    /\ getPdfQualityPreset = Some(PDF_QUALITY_PRESETS[4])

----------------------------------------------------------------------------
(* What a successful routing run hands back *)

(* C32: whenever tryConvertByTraversing returns a success for a path with at
   least one hop, the returned batch contains at least one file and every
   file in it has a non-zero-length payload. *)
C32_SuccessHasContent ==
    (result # None /\ Len(result[1].path) >= 2) =>
        /\ Len(result[1].files) >= 1
        /\ \A n \in 1..Len(result[1].files) : result[1].files[n].bytes # <<>>

\* The half of C32 that holds: no file of a returned batch is without content.
NoEmptyFileReturned ==
    result # None => \A n \in 1..Len(result[1].files) : result[1].files[n].bytes # <<>>

----------------------------------------------------------------------------
(* Files that need no conversion *)

\* What a step does with a file that has been read and whose output media
\* type is the input's: nothing of the routing run, and once it is through,
\* its bytes are downloaded under its name and it is counted completed.
PassedThrough ==
    (bpc = "reading" /\ bf.kind = "sameMime") =>
        /\ UNCHANGED routeVars
        /\ bpc' # "reading" =>
              /\ bpc' = "loop"
              /\ downloads' = Append(downloads, [file |-> bf.name, part |-> 1,
                                                 bytes |-> InputBatch[1].bytes])
              /\ completedFiles' = completedFiles + 1
              /\ UNCHANGED <<allOutputFiles, raised>>

(* C36: in a batch run, when the selected input option and a file's output
   option have the same media type (whatever their format codes), no path
   search and no handler operation is performed for that file: its original
   bytes are delivered under its original name and it is counted completed,
   not failed. *)
C36_SameMediaTypePassesThrough ==
    [](bpc = "routing" => bf.kind = "convert") /\ [][PassedThrough]_vars

\* A run is through with a file of the input's media type after a file that
\* was routed.
C36_Witness ==
    /\ bpc = "finished"
    /\ Len(begun) = 2
    /\ begun[1].kind = "convert"
    /\ begun[2].kind = "sameMime"
    /\ \E n \in 1..Len(downloads) : downloads[n].file = begun[2].name
    /\ completedFiles = 2

----------------------------------------------------------------------------
(* The page's controls: the batch, the format lists, the merge switch, the
   output mode and the convert button, with catalog builds going on. *)

\* isImageType: the media types that can be merged.
ImageTypes == {"m/a", "m/g"}
isImageType(mime) == mime \in ImageTypes

\* The files the user can add: two images, one of them with the extension of
\* another listed input format.
FilePool ==
    { [name |-> 1, mime |-> "m/a", ext |-> "a"],
      [name |-> 2, mime |-> "m/a", ext |-> "b"] }

\* batchFiles.push({ file: f, outputFormatIndex: null }); chosen (history):
\* the option the last pick in the file's picker designated, if the reset
\* entry was not clicked since.
NewBatchFile(f) ==
    [name |-> f.name, mime |-> f.mime, ext |-> f.ext, outputFormatIndex |-> None,
     chosen |-> None]

imageCount(list) == Cardinality({k \in 1..Len(list) : isImageType(list[k].mime)})

\* allOptions[index], for an index counted from 0 (optional).
OptionAt(options, index) ==
    IF index + 1 \in 1..Len(options) THEN Some(options[index + 1]) ELSE None

\* Options m and n are the same format for the lists: in simple mode by media
\* type and format code, in advanced mode never.
SameListFormat(options, m, n) ==
    /\ options[m].format.mime = options[n].format.mime
    /\ options[m].format.format = options[n].format.format

\* The positions in allOptions that have a button in #from-list: every
\* input format, in simple mode only the first of a media type and code.
InputButtons(options, simple) ==
    {n \in 1..Len(options) :
        /\ options[n].format.from
        /\ simple => \A m \in 1..(n - 1) :
                        ~(options[m].format.from /\ SameListFormat(options, m, n))}

\* The same for #to-list.
OutputButtons(options, simple) ==
    {n \in 1..Len(options) :
        /\ options[n].format.to
        /\ simple => \A m \in 1..(n - 1) :
                        ~(options[m].format.to /\ SameListFormat(options, m, n))}

\* openPerFileFormatPicker: the positions offered, the first of each key
\* (media type and code, in advanced mode with the handler).
PickerOptions(options, simple) ==
    {n \in 1..Len(options) :
        /\ options[n].format.to
        /\ \A m \in 1..(n - 1) :
              ~(/\ options[m].format.to
                /\ SameListFormat(options, m, n)
                /\ simple \/ options[m].handler = options[n].handler)}

\* Most entries of a format list or picker the clicks are drawn from.
MaxRow == 2

\* The MaxRow lowest positions of S.
FirstRows(S) == {n \in S : Cardinality({m \in S : m < n}) < MaxRow}

\* renderBatchFileList: with a batch that is not empty and holds fewer than
\* two images, mergeMode is switched off; an empty batch returns before that.
renderBatchFileList(list, merge) ==
    IF list = <<>> THEN merge
    ELSE IF imageCount(list) < 2 THEN FALSE
    ELSE merge

\* updateConvertButtonState: whether the convert button is left enabled.
updateConvertButtonState(list, merge, individual, inSel, outSel) ==
    IF list = <<>> THEN FALSE
    ELSE IF merge /\ Len(list) >= 2 THEN outSel # None
    ELSE IF inSel = None THEN FALSE
    ELSE IF individual THEN \A k \in 1..Len(list) : list[k].outputFormatIndex # None
    ELSE outSel # None

\* The page when cache.json has settled with entries for all handlers but H1.
UiInit ==
    /\ supportedFormatCache = [h \in Handlers \ {"H1"} |-> Decl[h]]
    /\ ready = FreshReady
    /\ handlerFormats = FreshFormats
    /\ allOptions = <<>>
    /\ RouteIdle
    /\ LifeIdle
    /\ graphCatalog = <<>>
    /\ graphMode = simpleMode
    /\ searchedStale = FALSE
    /\ BatchIdle
    /\ UiIdle

uiFrame == <<supportedFormatCache, ready, handlerFormats, allOptions, routeVars, lifeVars,
             graphVars, activePresetIndex, presetCalls, earlier>>
runFrame == <<bpc, fileIdx, conversionCancelled, cancelledAt, allOutputFiles, downloads,
              produced, raised, totalFiles, completedFiles, begun>>

\* A click on a button of #from-list: it becomes the selected one.
SelectInput ==
    /\ \E n \in FirstRows(InputButtons(allOptions, simpleMode)) : inputSelected' = Some(n - 1)
    /\ convertEnabled' = updateConvertButtonState(batchFiles, mergeMode, individualMode,
                                                  inputSelected', outputSelected)
    /\ UNCHANGED <<batchFiles, mergeMode, individualMode, outputSelected, uiFrame, runFrame>>

\* A click on a button of #to-list.
SelectOutput ==
    /\ \E n \in FirstRows(OutputButtons(allOptions, simpleMode)) : outputSelected' = Some(n - 1)
    /\ convertEnabled' = updateConvertButtonState(batchFiles, mergeMode, individualMode,
                                                  inputSelected, outputSelected')
    /\ UNCHANGED <<batchFiles, mergeMode, individualMode, inputSelected, uiFrame, runFrame>>

\* fileSelectHandler outside a run: the file is pushed without an override,
\* the batch is sorted and rendered; the input button of the first file's
\* media type, or else of its extension, is clicked if there is one (and only
\* that click updates the convert button).
AddFiles ==
    /\ bpc = "idle"
    /\ Len(batchFiles) < MaxFiles
    /\ \E f \in FilePool :
         /\ \A k \in 1..Len(batchFiles) : batchFiles[k].name # f.name
         /\ batchFiles' = SortByName(Append(batchFiles, NewBatchFile(f)))
    /\ mergeMode' = renderBatchFileList(batchFiles', mergeMode)
    /\ LET first == batchFiles'[1]
           byMime == {n \in InputButtons(allOptions, simpleMode) :
                         first.mime # "" /\ allOptions[n].format.mime = first.mime}
           byExt == {n \in InputButtons(allOptions, simpleMode) :
                         allOptions[n].format.format = first.ext}
           found == IF byMime # {} THEN byMime ELSE byExt
       IN  IF found = {}
           THEN UNCHANGED <<inputSelected, convertEnabled>>
           ELSE /\ \E n \in found : inputSelected' = Some(n - 1)
                /\ convertEnabled' = updateConvertButtonState(batchFiles', mergeMode',
                                         individualMode, inputSelected', outputSelected)
    /\ UNCHANGED <<individualMode, outputSelected, uiFrame, runFrame>>

\* batchFiles.splice(idx, 1) without element idx.
Splice(list, idx) == SubSeq(list, 1, idx - 1) \o SubSeq(list, idx + 1, Len(list))

\* removeBtn.onclick of a row.
RemoveFile ==
    /\ bpc = "idle"
    /\ \E idx \in 1..Len(batchFiles) : batchFiles' = Splice(batchFiles, idx)
    /\ mergeMode' = renderBatchFileList(batchFiles', mergeMode)
    /\ convertEnabled' = updateConvertButtonState(batchFiles', mergeMode', individualMode,
                                                  inputSelected, outputSelected)
    /\ UNCHANGED <<individualMode, inputSelected, outputSelected, uiFrame, runFrame>>

\* The batch clear button.
ClearBatch ==
    /\ bpc = "idle"
    /\ batchFiles # <<>>
    /\ batchFiles' = <<>>
    /\ mergeMode' = renderBatchFileList(batchFiles', mergeMode)
    /\ convertEnabled' = updateConvertButtonState(batchFiles', mergeMode', individualMode,
                                                  inputSelected, outputSelected)
    /\ UNCHANGED <<individualMode, inputSelected, outputSelected, uiFrame, runFrame>>

\* The merge switch, shown while the batch holds two images or more.
MergeToggle ==
    /\ bpc = "idle"
    /\ batchFiles # <<>>
    /\ imageCount(batchFiles) >= 2
    /\ mergeMode' = ~mergeMode
    /\ convertEnabled' = updateConvertButtonState(batchFiles, mergeMode', individualMode,
                                                  inputSelected, outputSelected)
    /\ UNCHANGED <<batchFiles, individualMode, inputSelected, outputSelected, uiFrame,
                   runFrame>>

\* Faulty variant: the overrides outlive the switch back to global.
OutputModeToggle_KeepsOverrides ==
    /\ \E mode \in {"global", "individual"} : individualMode' = (mode = "individual")
    /\ UNCHANGED batchFiles
    /\ mergeMode' = renderBatchFileList(batchFiles', mergeMode)
    /\ convertEnabled' = updateConvertButtonState(batchFiles', mergeMode', individualMode',
                                                  inputSelected, outputSelected)
    /\ UNCHANGED <<inputSelected, outputSelected, uiFrame, runFrame>>

\* A click on a button of the output mode toggle: back in global mode every
\* override is cleared.
OutputModeToggle ==
    /\ \E mode \in {"global", "individual"} : individualMode' = (mode = "individual")
    /\ batchFiles' = IF individualMode' THEN batchFiles
                     ELSE [k \in 1..Len(batchFiles) |->
                              [batchFiles[k] EXCEPT !.outputFormatIndex = None]]
    /\ mergeMode' = renderBatchFileList(batchFiles', mergeMode)
    /\ convertEnabled' = updateConvertButtonState(batchFiles', mergeMode', individualMode',
                                                  inputSelected, outputSelected)
    /\ UNCHANGED <<inputSelected, outputSelected, uiFrame, runFrame>>

\* The format badge of a row (individual mode only) opens the picker, and a
\* format or the reset entry is clicked in it.
PickOverride ==
    /\ individualMode
    /\ \E idx \in 1..Len(batchFiles) :
         \/ \E n \in FirstRows(PickerOptions(allOptions, simpleMode)) :
               batchFiles' = [batchFiles EXCEPT ![idx].outputFormatIndex = Some(n - 1),
                                                ![idx].chosen = Some(allOptions[n])]
         \/ batchFiles' = [batchFiles EXCEPT ![idx].outputFormatIndex = None,
                                             ![idx].chosen = None]
    /\ mergeMode' = renderBatchFileList(batchFiles', mergeMode)
    /\ convertEnabled' = updateConvertButtonState(batchFiles', mergeMode', individualMode,
                                                  inputSelected, outputSelected)
    /\ UNCHANGED <<individualMode, inputSelected, outputSelected, uiFrame, runFrame>>

UiNext ==
    \/ BuildStart
    \/ BuildImportDone
    \/ BuildInitReturn
    \/ SelectInput
    \/ SelectOutput
    \/ AddFiles
    \/ RemoveFile
    \/ ClearBatch
    \/ MergeToggle
    \/ OutputModeToggle
    \/ PickOverride

UiSpec == UiInit /\ [][UiNext]_vars

\* C35: whenever the batch holds fewer than two image files, merge mode is off.
C35_MergeOffBelowTwoImages == imageCount(batchFiles) < 2 => ~mergeMode

\* C33: while the convert button is enabled and merge mode is off, an input
\* format is selected, and every file has an override (individual mode) or a
\* global output format is selected (global mode).
C33_EnabledMeansConvertible ==
    (convertEnabled /\ ~mergeMode) =>
        /\ inputSelected # None
        /\ IF individualMode
           THEN \A k \in 1..Len(batchFiles) : batchFiles[k].outputFormatIndex # None
           ELSE outputSelected # None

NoOverrides == \A k \in 1..Len(batchFiles) : batchFiles[k].outputFormatIndex = None

\* C34: while individual mode is off every file's override is null, and the
\* switch back to global mode leaves no override behind.
C34_GlobalModeHasNoOverrides ==
    /\ [](~individualMode => NoOverrides)
    /\ [][(individualMode /\ ~individualMode') => NoOverrides']_vars

\* Two files had their overrides picked, and the switch back to global mode
\* cleared them.
C34_Witness ==
    ~(/\ ~individualMode
      /\ Len(batchFiles) = 2
      /\ \A k \in 1..2 : batchFiles[k].chosen # None /\ batchFiles[k].outputFormatIndex = None)

AllBuildsDone == builds # <<>> /\ \A b \in 1..Len(builds) : builds[b].phase = "done"

\* C31: once the option list is built, a file's override designates the
\* option (format and handler) it designated when it was picked.
C31_OverrideKeepsItsOption ==
    AllBuildsDone =>
        \A k \in 1..Len(batchFiles) :
            batchFiles[k].outputFormatIndex # None =>
                OptionAt(allOptions, batchFiles[k].outputFormatIndex[1]) = batchFiles[k].chosen

----------------------------------------------------------------------------
(* Runs started by the convert button: the batch run, and in merge mode
   handleMergeConvert, each on a page where an earlier run may have been
   cancelled. *)

\* The media types imagesToPdf declares as inputs.
MergeInputs == {"m/a"}

\* The media types of the files selected before a run.
RunMimes == {"m/a", "m/g"}

\* The batches selected before the run: image files, sorted by name.
RunBatches ==
    {[k \in 1..Len(s) |->
         [name |-> 2 * k, kind |-> s[k][1], added |-> FALSE, mime |-> s[k][2]]] :
        s \in SeqsUpTo({"sameMime", "convert"} \X RunMimes, MaxFiles) \ {<<>>}}

\* const imageFiles = batchFiles.filter(bf => isImageType(bf.file.type))
imageFiles == SelectSeq(batchFiles, LAMBDA f : isImageType(f.mime))

\* The PDF imagesToPdf returns.
merged == <<[file |-> 0, part |-> 1, bytes |-> <<1>>]>>

\* As DropInit before the first run of the page, with image files in the
\* batch and both formats selected.
RunInit ==
    /\ searchSeq = <<(<<from, Node(FmtC, "H3")>>)>>
    /\ supportedFormatCache = [h \in Handlers |-> Decl[h]]
    /\ ready = FreshReady
    /\ handlerFormats = FreshFormats
    /\ allOptions = OptionList(supportedFormatCache, 1)
    /\ yielded = 0
    /\ requests = 0
    /\ files = <<>>
    /\ pc = "idle"
    /\ path = <<>>
    /\ attemptFiles = <<>>
    /\ i = 0
    /\ supportedFormats = None
    /\ result = None
    /\ attempts = <<>>
    /\ calls = <<>>
    /\ LifeIdle
    /\ GraphIdle
    /\ bpc = "idle"
    /\ batchFiles \in RunBatches
    /\ fileIdx = 0
    /\ conversionCancelled = FALSE
    /\ cancelledAt = None
    /\ allOutputFiles = <<>>
    /\ downloads = <<>>
    /\ produced = <<>>
    /\ raised = {}
    /\ totalFiles = 0
    /\ completedFiles = 0
    /\ begun = <<>>
    /\ mergeMode = FALSE
    /\ individualMode = FALSE
    /\ inputSelected = Some(0)
    /\ outputSelected = Some(4)
    /\ convertEnabled = TRUE
    /\ activePresetIndex = 2
    /\ presetCalls = <<>>
    /\ earlier = <<>>

\* The click on Convert in merge mode, with two images or more in the batch:
\* buildProgressPopup resets the flag, then two animation frames are awaited.
MergeStart ==
    /\ bpc = "idle"
    /\ fileIdx = 0
    /\ batchFiles # <<>>
    /\ mergeMode
    /\ Len(imageFiles) >= 2
    /\ buildProgressPopup
    /\ bpc' = "mergeWait"
    /\ UNCHANGED <<batchFiles, fileIdx, cancelledAt, allOutputFiles, downloads, produced,
                   raised, totalFiles, completedFiles, begun, batchFrame>>

\* The frames have passed: a merge handler that is not ready is initialised
\* first, otherwise the reading loop is entered.
MergeFramesElapsed ==
    /\ bpc = "mergeWait"
    /\ IF ready[mergeHandler]
       THEN bpc' = "mergeLoop" /\ fileIdx' = 1
       ELSE bpc' = "mergeInit" /\ UNCHANGED fileIdx
    /\ UNCHANGED <<batchFiles, conversionCancelled, cancelledAt, allOutputFiles,
                   downloads, produced, raised, totalFiles, completedFiles, begun,
                   batchFrame>>

\* await mergeHandler.init() settles: a throw ends the run in the catch.
MergeRunInit ==
    /\ bpc = "mergeInit"
    /\ InitNow(mergeHandler, FALSE)
    /\ IF ready'[mergeHandler]
       THEN bpc' = "mergeLoop" /\ fileIdx' = 1
       ELSE bpc' = "failed" /\ UNCHANGED fileIdx
    /\ UNCHANGED <<allOptions, simpleMode, builds, exported, graphVars, routeVars,
                   batchFiles, conversionCancelled, cancelledAt, allOutputFiles, downloads,
                   produced, raised, totalFiles, completedFiles, begun, uiVars>>

\* Head of the reading loop for the next image: a set flag ends the run with
\* "Merge cancelled", otherwise the file is read.
MergeFileBegin ==
    /\ bpc = "mergeLoop"
    /\ fileIdx <= Len(imageFiles)
    /\ bpc' = IF conversionCancelled THEN "cancelled" ELSE "mergeReading"
    /\ UNCHANGED <<batchFiles, fileIdx, conversionCancelled, cancelledAt, allOutputFiles,
                   downloads, produced, raised, totalFiles, completedFiles, begun,
                   batchFrame>>

\* await imageFiles[i].file.arrayBuffer() settles: inputFileData.push.
MergeFileRead ==
    /\ bpc = "mergeReading"
    /\ begun' = Append(begun, imageFiles[fileIdx])
    /\ fileIdx' = fileIdx + 1
    /\ bpc' = "mergeLoop"
    /\ UNCHANGED <<batchFiles, conversionCancelled, cancelledAt, allOutputFiles,
                   downloads, produced, raised, totalFiles, completedFiles, batchFrame>>

\* After the loop: without an input format of the first image's media type the
\* run throws; a set flag ends it with "Merge cancelled"; otherwise
\* mergeHandler.doConvert is called.
MergeLoopExit ==
    /\ bpc = "mergeLoop"
    /\ fileIdx > Len(imageFiles)
    /\ bpc' = IF imageFiles[1].mime \notin MergeInputs THEN "failed"
              ELSE IF conversionCancelled THEN "cancelled"
              ELSE "mergeBuild"
    /\ UNCHANGED <<batchFiles, fileIdx, conversionCancelled, cancelledAt, allOutputFiles,
                   downloads, produced, raised, totalFiles, completedFiles, begun,
                   batchFrame>>

\* await mergeHandler.doConvert settles: the PDF, or a throw (an image that
\* does not load).
MergeBuilt ==
    /\ bpc = "mergeBuild"
    /\ \E outcome \in {"throws", "ok"} :
         IF outcome = "ok"
         THEN produced' = merged /\ bpc' = "mergeFinalWait"
         ELSE UNCHANGED produced /\ bpc' = "failed"
    /\ UNCHANGED <<batchFiles, fileIdx, conversionCancelled, cancelledAt, allOutputFiles,
                   downloads, raised, totalFiles, completedFiles, begun, batchFrame>>

\* After 300 ms the PDF is downloaded and the success popup is shown.
MergeFinish ==
    /\ bpc = "mergeFinalWait"
    /\ downloads' = downloads \o produced
    /\ bpc' = "finished"
    /\ UNCHANGED <<batchFiles, fileIdx, conversionCancelled, cancelledAt, allOutputFiles,
                   produced, raised, totalFiles, completedFiles, begun, batchFrame>>

\* Most runs of one page.
MaxRuns == 2

\* The run has ended (a result popup, or the alert of the catch) and the page
\* is back to its controls; the flag keeps the value the run left.
RunOver ==
    /\ bpc \in {"finished", "cancelled", "failed"}
    /\ Len(earlier) < MaxRuns - 1
    /\ earlier' = Append(earlier, cancelledAt # None)
    /\ bpc' = "idle"
    /\ fileIdx' = 0
    /\ cancelledAt' = None
    /\ allOutputFiles' = <<>>
    /\ downloads' = <<>>
    /\ produced' = <<>>
    /\ raised' = {}
    /\ totalFiles' = 0
    /\ completedFiles' = 0
    /\ begun' = <<>>
    /\ UNCHANGED <<batchFiles, conversionCancelled, handlerVars, routeVars, lifeVars,
                   graphVars, mergeMode, individualMode, inputSelected, outputSelected,
                   convertEnabled, activePresetIndex, presetCalls>>

RunNext ==
    \/ BatchNext
    \/ MergeToggle
    \/ RunOver
    \/ MergeStart
    \/ MergeFramesElapsed
    \/ MergeRunInit
    \/ MergeFileBegin
    \/ MergeFileRead
    \/ MergeLoopExit
    \/ MergeBuilt
    \/ MergeFinish

RunSpec == RunInit /\ [][RunNext]_vars

RunStarted == bpc # "idle"

\* The run ran to its end: every batch file was begun, or every image was
\* read and the merge was not ended as cancelled.
RanToEnd ==
    IF mergeMode
    THEN bpc # "cancelled" /\ (bpc = "finished" => Len(begun) = Len(imageFiles))
    ELSE bpc = "finished" => Len(begun) = Len(batchFiles)

\* C37: once a conversion or merge run has started, the cancellation flag is
\* set only if the Cancel button of this run's popup was clicked (so a run
\* whose button is not clicked runs to its end, whatever the flag was before),
\* and only a click on that button sets the flag.
C37_FlagFalseAtRunStart ==
    /\ [](RunStarted /\ cancelledAt = None => ~conversionCancelled /\ RanToEnd)
    /\ [][(~conversionCancelled /\ conversionCancelled') =>
             (RunStarted /\ cancelledAt = None /\ cancelledAt' # None)]_vars

\* After a run that was cancelled, a merge run has read every image and
\* downloaded the PDF.
C37_Witness ==
    ~(/\ earlier = <<TRUE>>
      /\ mergeMode
      /\ bpc = "finished"
      /\ cancelledAt = None
      /\ Len(begun) = 2
      /\ downloads = merged)

====
